---- MODULE Spec2Model ----
(***************************************************************************)
(* A model of the DAS core of rust-kzg (kzg/src/das.rs): cell computation, *)
(* FK20 cell proofs, missing-cell recovery and batched cell-proof          *)
(* verification, instantiated on a small preset over a small prime field.  *)
(*                                                                         *)
(* Sequences are 1-indexed; the code's index i is position i + 1.          *)
(* A G1 point of the prime-order subgroup is modelled by its discrete      *)
(* logarithm (a scalar), so point addition is scalar addition, scalar      *)
(* multiplication is scalar multiplication and the pairing of two points   *)
(* is the product of their logarithms.                                     *)
(***************************************************************************)
EXTENDS Integers, Sequences, FiniteSets, TLC

VARIABLES
    pc,                \* "start", "ready" once the cells are computed, "done"
    op,                \* the operation called last
    blob,              \* the caller's blob
    commitment,        \* its commitment
    blob_cells,        \* output buffer of compute_cells_and_kzg_proofs
    blob_proofs,       \* output buffer of compute_cells_and_kzg_proofs
    args,              \* the arguments of the call
    ret,               \* the Result of the call
    recovered_cells,   \* output buffer of recover_cells_and_kzg_proofs
    recovered_proofs,  \* output buffer of recover_cells_and_kzg_proofs
    obs                \* values the operation handed to its helpers

vars == <<pc, op, blob, commitment, blob_cells, blob_proofs, args, ret,
          recovered_cells, recovered_proofs, obs>>

----------------------------------------------------------------------------
(* The preset (trait Preset and the const generic of trait DAS).           *)

FIELD_ELEMENTS_PER_CELL == 2
CELLS_PER_EXT_BLOB == 4
FIELD_ELEMENTS_PER_EXT_BLOB == CELLS_PER_EXT_BLOB * FIELD_ELEMENTS_PER_CELL
FIELD_ELEMENTS_PER_BLOB == FIELD_ELEMENTS_PER_EXT_BLOB \div 2

(* The scalar field: the integers modulo a prime with a root of unity of   *)
(* order FIELD_ELEMENTS_PER_EXT_BLOB and in which 7 lies outside the       *)
(* subgroup that root generates.                                           *)
Modulus == 17
RootOfUnity == 2

(* A variant that shifts by a root of the domain: the coset is the domain  *)
(* itself.                                                                 *)
CosetShiftInDomain == RootOfUnity

(* The shift of coset_fft and coset_ifft. *)
CosetShift == 7

Null == -1

Fr == 0 .. (Modulus - 1)

IsNull(x) == x = Null

FrAdd(a, b) == (a + b) % Modulus
FrSub(a, b) == (a - b) % Modulus
FrMul(a, b) == (a * b) % Modulus
FrNegate(a) == (Modulus - (a % Modulus)) % Modulus

FrPow(a, n) ==
    LET pw[k \in 0 .. n] == IF k = 0 THEN 1 ELSE FrMul(a, pw[k - 1])
    IN  pw[n]

FrInverse(a) == FrPow(a % Modulus, Modulus - 2)

(* Fr::div fails on a zero divisor. *)
FrDivFails(a, b) == b % Modulus = 0
FrDiv(a, b) == FrMul(a, FrInverse(b))

(* A Vec built element by element, as a sequence. *)
AsVec(f) == f \o <<>>

----------------------------------------------------------------------------
(* common_utils: bit reversal.                                             *)

IsPow2(n) == n >= 1 /\ \E e \in 0 .. n : 2 ^ e = n

(* log2 of a power of two *)
Log2(n) == CHOOSE e \in 0 .. n : 2 ^ e = n

(* The order bits of i, the lowest one first, read as a number. *)
reverse_bits_limited(n, i) ==
    LET order == Log2(n)
        rev[b \in 0 .. order] ==
            IF b = 0 THEN 0 ELSE rev[b - 1] * 2 + ((i \div (2 ^ (b - 1))) % 2)
    IN  rev[order]

reverse_bit_order_fails(buf) == ~IsPow2(Len(buf))

reverse_bit_order(buf) ==
    AsVec([i \in 1 .. Len(buf) |-> buf[reverse_bits_limited(Len(buf), i - 1) + 1]])

CELL_INDICES_RBL ==
    [i \in 1 .. CELLS_PER_EXT_BLOB |->
        reverse_bits_limited(CELLS_PER_EXT_BLOB, i - 1)]

----------------------------------------------------------------------------
(* FFTSettings: expanded roots of unity and the transforms.                *)

MaxWidth == FIELD_ELEMENTS_PER_EXT_BLOB

ExpandedRoots == [i \in 0 .. MaxWidth |-> FrPow(RootOfUnity, i)]

get_roots_of_unity_at(i) == ExpandedRoots[i]

fft_fails(data) == Len(data) > MaxWidth \/ ~IsPow2(Len(data))

(* out[k] = sum over i of data[i] * root^(i * k * stride), the roots read   *)
(* backwards for the inverse transform.                                    *)
DftSum(data, k, stride, inverse) ==
    LET acc[i \in 0 .. Len(data)] ==
            IF i = 0 THEN 0
            ELSE LET e == ((i - 1) * k * stride) % MaxWidth
                     w == IF inverse THEN ExpandedRoots[MaxWidth - e]
                          ELSE ExpandedRoots[e]
                 IN  FrAdd(FrMul(data[i], w), acc[i - 1])
    IN  acc[Len(data)]

fft_fr(data, inverse) ==
    LET n == Len(data)
        stride == MaxWidth \div n
        inv_len == FrInverse(n)
    IN  AsVec([k \in 1 .. n |->
            LET s == DftSum(data, k - 1, stride, inverse)
            IN  IF inverse THEN FrMul(s, inv_len) ELSE s])

(* The same transform on group elements. *)
fft_g1(data, inverse) == fft_fr(data, inverse)

----------------------------------------------------------------------------
(* Results of fallible helpers: err = "" on success.                       *)

Ok(v) == [err |-> "", val |-> v]

(* What a call reports for the failure e of a helper: an Err, or the panic *)
(* that unwinds through it.                                                *)
Panics ==
    {"panic: index out of bounds", "panic: clone_from_slice",
     "panic: attempt to divide by zero", "panic: chunk_size must not be zero"}

Failed(e) == IF e \in Panics THEN e ELSE "Err: " \o e

IsOk(r) == r \in {"Ok", "Ok(true)", "Ok(false)"}

IsErr(r) == r # "none" /\ ~IsOk(r) /\ r \notin Panics

Err(e) == [err |-> e, val |-> <<>>]

RECURSIVE Flatten(_)
Flatten(cs) == IF cs = <<>> THEN <<>> ELSE Head(cs) \o Flatten(Tail(cs))

(* The inverse of as_flattened: chunks of FIELD_ELEMENTS_PER_CELL scalars. *)
Unflatten(flat) ==
    AsVec([c \in 1 .. (Len(flat) \div FIELD_ELEMENTS_PER_CELL) |->
        SubSeq(flat, (c - 1) * FIELD_ELEMENTS_PER_CELL + 1, c * FIELD_ELEMENTS_PER_CELL)])

Contains(s, x) == \E i \in 1 .. Len(s) : s[i] = x

g1_lincomb(points, scalars, len) ==
    LET acc[i \in 0 .. len] ==
            IF i = 0 THEN 0 ELSE FrAdd(acc[i - 1], FrMul(points[i], scalars[i]))
    IN  acc[len]

----------------------------------------------------------------------------
(* FFTSettings of a given scale and the transform over G1.  The field has  *)
(* roots of unity of order up to 2^TwoAdicity; the root of scale s is the  *)
(* 2^(TwoAdicity - s)-th power of the root of the largest scale, so that   *)
(* RootOfUnity is the root of the scale of MaxWidth.                       *)

TwoAdicity == 4

LargestRootOfUnity == 11

Pow2(e) == 2 ^ e

SCALE2_ROOT_OF_UNITY(scale) == FrPow(LargestRootOfUnity, Pow2(TwoAdicity - scale))

(* FFTSettings::new(scale): expanded_roots_of_unity holds the powers 0 ..   *)
(* max_width of the root, reverse_roots_of_unity the same backwards (both  *)
(* indexed from 0).                                                        *)
FFTSettingsNew(scale) ==
    LET max_width == Pow2(scale)
        root == SCALE2_ROOT_OF_UNITY(scale)
    IN  [max_width |-> max_width,
         expanded_roots_of_unity |-> [i \in 0 .. max_width |-> FrPow(root, i)],
         reverse_roots_of_unity |-> [i \in 0 .. max_width |-> FrPow(root, max_width - i)]]

G1Add(p, q) == FrAdd(p, q)
G1Sub(p, q) == FrSub(p, q)
G1Mul(p, x) == FrMul(p, x)

(* fft_g1_slow: out[i] is the sum over j of in[j * stride] times           *)
(* roots[((i * j) % l) * roots_stride].                                    *)
SlowSum(data, stride, roots, roots_stride, l, i) ==
    LET acc[j \in 0 .. l] ==
            IF j = 0 THEN 0
            ELSE G1Add(acc[j - 1],
                       G1Mul(data[(j - 1) * stride + 1],
                             roots[((i * (j - 1)) % l) * roots_stride]))
    IN  acc[l]

fft_g1_slow(data, stride, roots, roots_stride, l) ==
    AsVec([p \in 1 .. l |-> SlowSum(data, stride, roots, roots_stride, l, p - 1)])

(* A variant whose butterflies read the roots without the stride.          *)
ButterflyUnstrided(even, odd, roots, roots_stride, half) ==
    AsVec([p \in 1 .. (2 * half) |->
        IF p <= half
        THEN G1Add(even[p], G1Mul(odd[p], roots[p - 1]))
        ELSE G1Sub(even[p - half], G1Mul(odd[p - half], roots[p - half - 1]))])

(* The butterflies that join the transforms of the even and the odd half. *)
Butterfly(even, odd, roots, roots_stride, half) ==
    AsVec([p \in 1 .. (2 * half) |->
        IF p <= half
        THEN G1Add(even[p], G1Mul(odd[p], roots[(p - 1) * roots_stride]))
        ELSE G1Sub(even[p - half],
                   G1Mul(odd[p - half], roots[(p - half - 1) * roots_stride]))])

(* fft_g1_fast on the l inputs data[offset], data[offset + stride], ...    *)
(* (offset counted from 0): radix-2 decimation in time.                    *)
RECURSIVE FastFrom(_, _, _, _, _, _)
FastFrom(data, offset, stride, roots, roots_stride, l) ==
    IF l = 1 THEN <<data[offset + 1]>>
    ELSE Butterfly(FastFrom(data, offset, stride * 2, roots, roots_stride * 2, l \div 2),
                   FastFrom(data, offset + stride, stride * 2, roots, roots_stride * 2,
                            l \div 2),
                   roots, roots_stride, l \div 2)

fft_g1_fast(data, stride, roots, roots_stride, l) ==
    FastFrom(data, 0, stride, roots, roots_stride, l)

ScaleG1(points, x) == AsVec([i \in 1 .. Len(points) |-> G1Mul(points[i], x)])

(* A variant of the inverse transform that leaves out the division by the  *)
(* length.                                                                 *)
FftG1Unscaled(fs, data, inverse) ==
    IF Len(data) > fs.max_width THEN Err("Supplied list is longer than the available max width")
    ELSE IF ~IsPow2(Len(data)) THEN Err("A list with power-of-two length expected")
    ELSE Ok(fft_g1_fast(data, 1,
                        IF inverse THEN fs.reverse_roots_of_unity
                        ELSE fs.expanded_roots_of_unity,
                        fs.max_width \div Len(data), Len(data)))

(* FFTG1::fft_g1 of the settings fs. *)
FftG1(fs, data, inverse) ==
    IF Len(data) > fs.max_width THEN Err("Supplied list is longer than the available max width")
    ELSE IF ~IsPow2(Len(data)) THEN Err("A list with power-of-two length expected")
    ELSE IF inverse
    THEN Ok(ScaleG1(fft_g1_fast(data, 1, fs.reverse_roots_of_unity,
                                fs.max_width \div Len(data), Len(data)),
                    FrInverse(Len(data))))
    ELSE Ok(fft_g1_fast(data, 1, fs.expanded_roots_of_unity,
                        fs.max_width \div Len(data), Len(data)))

----------------------------------------------------------------------------
(* Coset FFT and the vanishing polynomial.                                 *)

shift_poly(poly, shift_factor) ==
    AsVec([i \in 1 .. Len(poly) |-> FrMul(poly[i], FrPow(shift_factor, i - 1))])

coset_fft(input) ==
    IF Len(input) = 0 THEN Err("Invalid input length")
    ELSE IF fft_fails(input) THEN Err("fft")
    ELSE Ok(fft_fr(shift_poly(input, CosetShift), FALSE))

coset_ifft(input) ==
    IF Len(input) = 0 THEN Err("Invalid input length")
    ELSE IF fft_fails(input) THEN Err("fft")
    ELSE Ok(shift_poly(fft_fr(input, TRUE), FrDiv(1, CosetShift)))

(* A variant of the round that leaves the constant coefficient as it is.  *)
VanishingStepKeepsConstant(poly, root) ==
    LET i == Len(poly)
        neg_root == FrNegate(root)
    IN  AsVec([j \in 1 .. (i + 1) |->
            IF j = i + 1 THEN FrAdd(neg_root, poly[i])
            ELSE IF j = 1 THEN poly[1]
            ELSE FrAdd(FrMul(poly[j], neg_root), poly[j - 1])])

(* One round of the loop of compute_vanishing_polynomial_from_roots: poly  *)
(* holds i coefficients (index 0 .. i-1) and gets one more.                *)
VanishingStep(poly, root) ==
    LET i == Len(poly)
        neg_root == FrNegate(root)
    IN  AsVec([j \in 1 .. (i + 1) |->
            IF j = i + 1 THEN FrAdd(neg_root, poly[i])
            ELSE IF j = 1 THEN FrMul(poly[1], neg_root)
            ELSE FrAdd(FrMul(poly[j], neg_root), poly[j - 1])])

RECURSIVE VanishingLoop(_, _, _)
VanishingLoop(poly, roots, i) ==
    IF i > Len(roots) THEN poly
    ELSE VanishingLoop(VanishingStep(poly, roots[i]), roots, i + 1)

compute_vanishing_polynomial_from_roots(roots) ==
    IF Len(roots) = 0 THEN Err("Roots cannot be empty")
    ELSE Ok(Append(VanishingLoop(<<FrNegate(roots[1])>>, roots, 2), 1))

vanishing_polynomial_for_missing_cells(missing_cell_indicies) ==
    IF Len(missing_cell_indicies) = 0
       \/ Len(missing_cell_indicies) >= CELLS_PER_EXT_BLOB
    THEN Err("Invalid missing cell indicies count")
    ELSE
        LET stride == FIELD_ELEMENTS_PER_EXT_BLOB \div CELLS_PER_EXT_BLOB
            roots == AsVec([i \in 1 .. Len(missing_cell_indicies) |->
                        get_roots_of_unity_at(missing_cell_indicies[i] * stride)])
            short == compute_vanishing_polynomial_from_roots(roots)
        IN  IF short.err # "" THEN short
            ELSE IF (Len(short.val) - 1) * FIELD_ELEMENTS_PER_CELL
                        >= FIELD_ELEMENTS_PER_EXT_BLOB
            THEN Err("panic: index out of bounds")
            ELSE Ok(AsVec([p \in 1 .. FIELD_ELEMENTS_PER_EXT_BLOB |->
                        IF (p - 1) % FIELD_ELEMENTS_PER_CELL = 0
                           /\ (p - 1) \div FIELD_ELEMENTS_PER_CELL < Len(short.val)
                        THEN short.val[((p - 1) \div FIELD_ELEMENTS_PER_CELL) + 1]
                        ELSE 0]))

----------------------------------------------------------------------------
(* recover_cells: output is the flat buffer with Null at missing places.   *)

(* A variant that lists the missing cells by their plain indices. *)
MissingCellIndiciesInOrder(cell_indicies) ==
    LET all == AsVec([i \in 1 .. CELLS_PER_EXT_BLOB |-> i - 1])
    IN  SelectSeq(all, LAMBDA i : ~Contains(cell_indicies, i))

(* The missing cells' indices, bit-reversed, as recover_cells collects     *)
(* them.                                                                   *)
MissingCellIndicies(cell_indicies) ==
    LET all == AsVec([i \in 1 .. CELLS_PER_EXT_BLOB |-> i - 1])
        absent == SelectSeq(all, LAMBDA i : ~Contains(cell_indicies, i))
    IN  AsVec([j \in 1 .. Len(absent) |->
                reverse_bits_limited(CELLS_PER_EXT_BLOB, absent[j])])

TimesZero(cells_brp, vanishing_poly_eval) ==
    AsVec([i \in 1 .. FIELD_ELEMENTS_PER_EXT_BLOB |->
        IF IsNull(cells_brp[i]) THEN 0
        ELSE FrMul(cells_brp[i], vanishing_poly_eval[i])])

(* The division by the vanishing polynomial over the coset and the way     *)
(* back to evaluations over the domain.                                    *)
DivideOverCoset(extended_evaluations_over_coset, vanishing_poly_over_coset) ==
    IF \E i \in 1 .. FIELD_ELEMENTS_PER_EXT_BLOB :
            FrDivFails(extended_evaluations_over_coset[i], vanishing_poly_over_coset[i])
    THEN Err("division by zero")
    ELSE Ok(AsVec([i \in 1 .. FIELD_ELEMENTS_PER_EXT_BLOB |->
                FrDiv(extended_evaluations_over_coset[i], vanishing_poly_over_coset[i])]))

ReconstructedEvaluations(reconstructed_poly_coeff) ==
    IF reconstructed_poly_coeff.err # "" THEN reconstructed_poly_coeff
    ELSE Ok(reverse_bit_order(fft_fr(reconstructed_poly_coeff.val, FALSE)))

RecoverFromQuotient(quotient) ==
    IF quotient.err # "" THEN quotient
    ELSE ReconstructedEvaluations(coset_ifft(quotient.val))

RecoverOverCoset(extended_evaluations_over_coset, vanishing_poly_over_coset) ==
    IF extended_evaluations_over_coset.err # "" THEN extended_evaluations_over_coset
    ELSE IF vanishing_poly_over_coset.err # "" THEN vanishing_poly_over_coset
    ELSE RecoverFromQuotient(DivideOverCoset(extended_evaluations_over_coset.val,
                                             vanishing_poly_over_coset.val))

RecoverWithVanishing(cells_brp, vanishing_poly_coeff) ==
    IF vanishing_poly_coeff.err # "" THEN vanishing_poly_coeff
    ELSE RecoverOverCoset(
            coset_fft(fft_fr(TimesZero(cells_brp, fft_fr(vanishing_poly_coeff.val, FALSE)),
                             TRUE)),
            coset_fft(vanishing_poly_coeff.val))

RecoverWithMissing(cells_brp, missing_cell_indicies) ==
    IF Len(missing_cell_indicies) > CELLS_PER_EXT_BLOB \div 2 THEN Err("Not enough cells")
    ELSE RecoverWithVanishing(cells_brp,
            vanishing_polynomial_for_missing_cells(missing_cell_indicies))

recover_cells(output, cell_indicies) ==
    IF reverse_bit_order_fails(output) THEN Err("reverse_bit_order")
    ELSE RecoverWithMissing(reverse_bit_order(output), MissingCellIndicies(cell_indicies))

----------------------------------------------------------------------------
(* KZGSettings: the trusted setup of secret TrustedSecret.                 *)

TrustedSecret == 3

g1_monomial == AsVec([i \in 1 .. FIELD_ELEMENTS_PER_BLOB |-> FrPow(TrustedSecret, i - 1)])

g2_monomial ==
    AsVec([i \in 1 .. (FIELD_ELEMENTS_PER_CELL + 1) |-> FrPow(TrustedSecret, i - 1)])

G2Generator == 1

(* e(a1, a2) == e(b1, b2) *)
PairingVerify(a1, a2, b1, b2) == FrMul(a1, a2) = FrMul(b1, b2)

(* Column `offset` of the FK20 precomputation: the monomial setup points   *)
(* n - FIELD_ELEMENTS_PER_CELL - 1 - offset - i * FIELD_ELEMENTS_PER_CELL  *)
(* for i < k - 1, padded with the identity to 2k points, transformed.      *)
XExtFft(offset) ==
    LET n == FIELD_ELEMENTS_PER_BLOB
        k == n \div FIELD_ELEMENTS_PER_CELL
        start == n - FIELD_ELEMENTS_PER_CELL - 1 - offset
        x == AsVec([i \in 1 .. (2 * k) |->
                IF i <= k - 1
                THEN g1_monomial[start - (i - 1) * FIELD_ELEMENTS_PER_CELL + 1]
                ELSE 0])
    IN  fft_g1(x, FALSE)

XExtFftColumns ==
    AsVec([row \in 1 .. CELLS_PER_EXT_BLOB |->
        AsVec([offset \in 1 .. FIELD_ELEMENTS_PER_CELL |-> XExtFft(offset - 1)[row]])])

get_x_ext_fft_column(i) == XExtFftColumns[i + 1]

(* blob_to_kzg_commitment: the polynomial of the blob evaluated at the     *)
(* secret, in the exponent.                                                *)
poly_lagrange_to_monomial(lagrange_poly) == fft_fr(reverse_bit_order(lagrange_poly), TRUE)

Commit(b) ==
    g1_lincomb(g1_monomial, poly_lagrange_to_monomial(b), FIELD_ELEMENTS_PER_BLOB)

----------------------------------------------------------------------------
(* FK20.                                                                   *)

(* A variant that starts every column from the polynomial's last           *)
(* coefficient, whatever the offset.                                       *)
ToeplitzCoeffsNoOffset(out, input, n, offset, stride) ==
    LET k == n \div stride
        k2 == k * 2
    IN  AsVec([p \in 1 .. Len(out) |->
            LET i == p - 1
            IN  IF i = 0 THEN input[n - 1 + 1]
                ELSE IF i <= k + 1 /\ i < k2 THEN 0
                ELSE IF i >= k + 2 /\ i < k2
                THEN input[(2 * stride - 1) + (i - (k + 2)) * stride + 1]
                ELSE out[p]])

toeplitz_coeffs_stride(out, input, n, offset, stride) ==
    LET k == n \div stride
        k2 == k * 2
    IN  AsVec([p \in 1 .. Len(out) |->
            LET i == p - 1
            IN  IF i = 0 THEN input[n - 1 - offset + 1]
                ELSE IF i <= k + 1 /\ i < k2 THEN 0
                ELSE IF i >= k + 2 /\ i < k2
                THEN input[(2 * stride - offset - 1) + (i - (k + 2)) * stride + 1]
                ELSE out[p]])

(* The places of input that a call reads, and the places of out that it   *)
(* writes (all counted from 0).                                            *)
ToeplitzReads(n, offset, stride) ==
    LET k == n \div stride
    IN  {n - 1 - offset}
        \cup {2 * stride - offset - 1 + (i - (k + 2)) * stride : i \in (k + 2) .. (2 * k - 1)}

ToeplitzWrites(n, stride) ==
    LET k == n \div stride
    IN  {0} \cup {i \in 1 .. (k + 1) : i < 2 * k} \cup ((k + 2) .. (2 * k - 1))

(* A variant of the call that writes the first place only. *)
ToeplitzFirstOnly(out, input, n, offset, stride) ==
    IF stride = 0 THEN [err |-> "Stride cannot be zero", val |-> out]
    ELSE IF \E r \in ToeplitzReads(n, offset, stride) : r < 0 \/ r >= Len(input)
    THEN [err |-> "panic: index out of bounds", val |-> out]
    ELSE IF \E w \in ToeplitzWrites(n, stride) : w >= Len(out)
    THEN [err |-> "panic: index out of bounds", val |-> out]
    ELSE Ok([out EXCEPT ![1] = input[n - 1 - offset + 1]])

(* The call as a whole: the check of the stride, the panic of an index     *)
(* out of range (the buffers are then as the caller can no longer see      *)
(* them), and the writes.                                                  *)
ToeplitzCall(out, input, n, offset, stride) ==
    IF stride = 0 THEN [err |-> "Stride cannot be zero", val |-> out]
    ELSE IF \E r \in ToeplitzReads(n, offset, stride) : r < 0 \/ r >= Len(input)
    THEN [err |-> "panic: index out of bounds", val |-> out]
    ELSE IF \E w \in ToeplitzWrites(n, stride) : w >= Len(out)
    THEN [err |-> "panic: index out of bounds", val |-> out]
    ELSE Ok(toeplitz_coeffs_stride(out, input, n, offset, stride))

(* The first loop of compute_fk20_proofs: after column i the matrix coeffs *)
(* holds the transformed Toeplitz vectors of columns 0 .. i.               *)
RECURSIVE Fk20Columns(_, _, _, _, _)
Fk20Columns(coeffs, toeplitz_coeffs, poly, n, i) ==
    IF i = FIELD_ELEMENTS_PER_CELL THEN coeffs
    ELSE LET t == toeplitz_coeffs_stride(toeplitz_coeffs, poly, n, i, FIELD_ELEMENTS_PER_CELL)
             f == fft_fr(t, FALSE)
         IN  Fk20Columns(AsVec([j \in 1 .. Len(coeffs) |->
                                    [coeffs[j] EXCEPT ![i + 1] = f[j]]]),
                         t, poly, n, i + 1)

compute_fk20_proofs(poly, n) ==
    LET k == n \div FIELD_ELEMENTS_PER_CELL
        k2 == k * 2
        zero_row == AsVec([c \in 1 .. k |-> 0])
    IN  IF FIELD_ELEMENTS_PER_CELL > k THEN Err("panic: index out of bounds")
        ELSE IF fft_fails([j \in 1 .. k2 |-> 0]) THEN Err("fft")
        ELSE
        LET coeffs == Fk20Columns(AsVec([j \in 1 .. k2 |-> zero_row]),
                                  AsVec([j \in 1 .. k2 |-> 0]), poly, n, 0)
            h_ext_fft == AsVec([i \in 1 .. k2 |->
                            g1_lincomb(get_x_ext_fft_column(i - 1), coeffs[i],
                                       FIELD_ELEMENTS_PER_CELL)])
            h == fft_g1(h_ext_fft, TRUE)
            h_cut == AsVec([i \in 1 .. k2 |-> IF i > k THEN 0 ELSE h[i]])
        IN  Ok(fft_g1(h_cut, FALSE))

(* compute_fk20_proofs for a preset P of any FIELD_ELEMENTS_PER_CELL and   *)
(* FIELD_ELEMENTS_PER_BLOB, with the trusted setup and the FFT settings of *)
(* that preset.  Every index is checked as the build checks it.            *)
SetupFor(P) ==
    [g1_monomial |-> AsVec([i \in 1 .. P.FIELD_ELEMENTS_PER_BLOB |->
                                FrPow(TrustedSecret, i - 1)]),
     fs |-> FFTSettingsNew(Log2(2 * P.FIELD_ELEMENTS_PER_BLOB))]

XExtFftFor(P, setup, offset) ==
    LET n == P.FIELD_ELEMENTS_PER_BLOB
        k == n \div P.FIELD_ELEMENTS_PER_CELL
        start == n - P.FIELD_ELEMENTS_PER_CELL - 1 - offset
    IN  FftG1(setup.fs,
              AsVec([i \in 1 .. (2 * k) |->
                  IF i <= k - 1
                  THEN setup.g1_monomial[start - (i - 1) * P.FIELD_ELEMENTS_PER_CELL + 1]
                  ELSE 0]),
              FALSE).val

XExtFftColumnFor(P, setup, row) ==
    AsVec([offset \in 1 .. P.FIELD_ELEMENTS_PER_CELL |->
        XExtFftFor(P, setup, offset - 1)[row + 1]])

(* vec![vec![B::Fr::default(); k]; k2] *)
CoeffsAllocated(P, n) ==
    AsVec([j \in 1 .. (2 * (n \div P.FIELD_ELEMENTS_PER_CELL)) |->
        AsVec([c \in 1 .. (n \div P.FIELD_ELEMENTS_PER_CELL) |-> 0])])

StoreColumn(coeffs, toeplitz_coeffs_fft, i) ==
    IF \E j \in 1 .. Len(coeffs) : i >= Len(coeffs[j])
    THEN Err("panic: index out of bounds")
    ELSE Ok(AsVec([j \in 1 .. Len(coeffs) |->
                [coeffs[j] EXCEPT ![i + 1] = toeplitz_coeffs_fft[j]]]))

RECURSIVE Fk20ColumnsFor(_, _, _, _, _, _, _)
TransformColumn(P, setup, coeffs, toeplitz, poly, n, i) ==
    IF toeplitz.err # "" THEN toeplitz
    ELSE IF FftG1(setup.fs, toeplitz.val, FALSE).err # ""
    THEN Err("fft")
    ELSE IF StoreColumn(coeffs, FftG1(setup.fs, toeplitz.val, FALSE).val, i).err # ""
    THEN StoreColumn(coeffs, FftG1(setup.fs, toeplitz.val, FALSE).val, i)
    ELSE Fk20ColumnsFor(P, setup,
                        StoreColumn(coeffs, FftG1(setup.fs, toeplitz.val, FALSE).val, i).val,
                        toeplitz.val, poly, n, i + 1)

Fk20ColumnsFor(P, setup, coeffs, toeplitz_coeffs, poly, n, i) ==
    IF i = P.FIELD_ELEMENTS_PER_CELL THEN Ok(coeffs)
    ELSE TransformColumn(P, setup, coeffs,
                         ToeplitzCall(toeplitz_coeffs, poly, n, i, P.FIELD_ELEMENTS_PER_CELL),
                         poly, n, i)

CutUpperHalf(h, k) ==
    IF h.err # "" THEN h
    ELSE Ok(AsVec([i \in 1 .. Len(h.val) |-> IF i > k THEN 0 ELSE h.val[i]]))

Fk20FromCoeffs(P, setup, coeffs, k) ==
    IF coeffs.err # "" THEN [err |-> coeffs.err, val |-> <<>>, rows |-> <<>>]
    ELSE IF \E j \in 1 .. Len(coeffs.val) : Len(coeffs.val[j]) < P.FIELD_ELEMENTS_PER_CELL
    THEN [err |-> "panic: index out of bounds", val |-> <<>>, rows |-> coeffs.val]
    ELSE [err |-> "",
          val |-> FftG1(setup.fs,
                        CutUpperHalf(
                            FftG1(setup.fs,
                                  AsVec([i \in 1 .. Len(coeffs.val) |->
                                      g1_lincomb(XExtFftColumnFor(P, setup, i - 1),
                                                 coeffs.val[i],
                                                 P.FIELD_ELEMENTS_PER_CELL)]),
                                  TRUE), k).val,
                        FALSE).val,
          rows |-> coeffs.val]

compute_fk20_proofs_for(P, poly, n) ==
    Fk20FromCoeffs(P, SetupFor(P),
                   Fk20ColumnsFor(P, SetupFor(P), CoeffsAllocated(P, n),
                                  AsVec([j \in 1 .. (2 * (n \div P.FIELD_ELEMENTS_PER_CELL))
                                            |-> 0]),
                                  poly, n, 0),
                   n \div P.FIELD_ELEMENTS_PER_CELL)

----------------------------------------------------------------------------
(* Option<&mut [T]>: None is the empty sequence, Some(buf) is <<buf>>.     *)
None == <<>>
Some(buf) == <<buf>>
IsSome(o) == Len(o) = 1

Returned(r, cells_out, proofs_out) == [ret |-> r, cells |-> cells_out, proofs |-> proofs_out]

(* DAS::compute_cells_and_kzg_proofs (the sequential build).  The result   *)
(* holds the Result of the call and the two output buffers on return.      *)

PolyMonomialOfBlob(b) ==
    poly_lagrange_to_monomial(b)
        \o [i \in 1 .. (FIELD_ELEMENTS_PER_EXT_BLOB - FIELD_ELEMENTS_PER_BLOB) |-> 0]

(* The proofs buffer takes the FK20 result and is put in bit-reversed      *)
(* order.                                                                  *)
StoreComputedProofs(result, cells_out, proofs_buf) ==
    IF result.err # "" THEN Returned(Failed(result.err), cells_out, proofs_buf)
    ELSE IF Len(result.val) # Len(proofs_buf[1])
    THEN Returned("panic: clone_from_slice", cells_out, proofs_buf)
    ELSE IF reverse_bit_order_fails(result.val)
    THEN Returned("Err: reverse_bit_order", cells_out, Some(result.val))
    ELSE Returned("Ok", cells_out, Some(reverse_bit_order(result.val)))

ComputeProofs(cells_out, proofs_buf, poly_monomial) ==
    IF ~IsSome(proofs_buf) THEN Returned("Ok", cells_out, proofs_buf)
    ELSE StoreComputedProofs(compute_fk20_proofs(poly_monomial, FIELD_ELEMENTS_PER_BLOB),
                             cells_out, proofs_buf)

compute_cells_and_kzg_proofs(cells_buf, proofs_buf, b) ==
    IF ~IsSome(cells_buf) /\ ~IsSome(proofs_buf)
    THEN Returned("Err: Both cells & proofs cannot be none", cells_buf, proofs_buf)
    ELSE IF Len(b) # FIELD_ELEMENTS_PER_BLOB
    THEN Returned("Err: blob_to_polynomial", cells_buf, proofs_buf)
    ELSE
    LET poly_monomial == PolyMonomialOfBlob(b)
    IN  IF IsSome(cells_buf)
        THEN IF Len(cells_buf[1]) * FIELD_ELEMENTS_PER_CELL # FIELD_ELEMENTS_PER_EXT_BLOB
             THEN Returned("panic: clone_from_slice", cells_buf, proofs_buf)
             ELSE ComputeProofs(
                    Some(Unflatten(reverse_bit_order(fft_fr(poly_monomial, FALSE)))),
                    proofs_buf, poly_monomial)
        ELSE ComputeProofs(cells_buf, proofs_buf, poly_monomial)

(* The build with the feature "parallel".  zip pairs the rounds of the     *)
(* two sides and stops with the shorter one.                               *)
ZipWrite(buf, src) ==
    AsVec([i \in 1 .. Len(buf) |-> IF i <= Len(src) THEN src[i] ELSE buf[i]])

ParChunks(s, chunk_size) ==
    AsVec([c \in 1 .. ((Len(s) + chunk_size - 1) \div chunk_size) |->
        SubSeq(s, (c - 1) * chunk_size + 1,
               IF c * chunk_size < Len(s) THEN c * chunk_size ELSE Len(s))])

ReverseWrittenProofs(written, cells_out) ==
    IF reverse_bit_order_fails(written)
    THEN Returned("Err: reverse_bit_order", cells_out, Some(written))
    ELSE Returned("Ok", cells_out, Some(reverse_bit_order(written)))

StoreProofsParallel(fk20_proofs, cells_out, proofs_buf) ==
    IF fk20_proofs.err # "" THEN Returned(Failed(fk20_proofs.err), cells_out, proofs_buf)
    ELSE ReverseWrittenProofs(ZipWrite(proofs_buf[1], fk20_proofs.val), cells_out)

ComputeProofsParallel(cells_out, proofs_buf, poly_monomial) ==
    IF ~IsSome(proofs_buf) THEN Returned("Ok", cells_out, proofs_buf)
    ELSE StoreProofsParallel(compute_fk20_proofs(poly_monomial, FIELD_ELEMENTS_PER_BLOB),
                             cells_out, proofs_buf)

ReverseWrittenCells(written, proofs_buf, poly_monomial) ==
    IF reverse_bit_order_fails(Flatten(written))
    THEN Returned("Err: reverse_bit_order", Some(written), proofs_buf)
    ELSE ComputeProofsParallel(Some(Unflatten(reverse_bit_order(Flatten(written)))),
                               proofs_buf, poly_monomial)

(* The chunks of one call all have the same length here, since every      *)
(* chunk length that occurs divides FIELD_ELEMENTS_PER_EXT_BLOB: either    *)
(* every round copies its chunk or every round panics.                     *)
ComputeCellsParallel(cells, proofs_buf, poly_monomial) ==
    IF fft_fails(poly_monomial) THEN Returned("Err: fft", Some(cells), proofs_buf)
    ELSE IF Len(cells) = 0
    THEN Returned("panic: attempt to divide by zero", Some(cells), proofs_buf)
    ELSE IF FIELD_ELEMENTS_PER_EXT_BLOB \div Len(cells) = 0
    THEN Returned("panic: chunk_size must not be zero", Some(cells), proofs_buf)
    ELSE IF FIELD_ELEMENTS_PER_EXT_BLOB \div Len(cells) # FIELD_ELEMENTS_PER_CELL
    THEN Returned("panic: clone_from_slice", Some(cells), proofs_buf)
    ELSE ReverseWrittenCells(
            ZipWrite(cells, ParChunks(fft_fr(poly_monomial, FALSE),
                                      FIELD_ELEMENTS_PER_EXT_BLOB \div Len(cells))),
            proofs_buf, poly_monomial)

compute_cells_and_kzg_proofs_parallel(cells_buf, proofs_buf, b) ==
    IF ~IsSome(cells_buf) /\ ~IsSome(proofs_buf)
    THEN Returned("Err: Both cells & proofs cannot be none", cells_buf, proofs_buf)
    ELSE IF Len(b) # FIELD_ELEMENTS_PER_BLOB
    THEN Returned("Err: blob_to_polynomial", cells_buf, proofs_buf)
    ELSE IF IsSome(cells_buf)
    THEN ComputeCellsParallel(cells_buf[1], proofs_buf, PolyMonomialOfBlob(b))
    ELSE ComputeProofsParallel(cells_buf, proofs_buf, PolyMonomialOfBlob(b))

----------------------------------------------------------------------------
(* DAS::recover_cells_and_kzg_proofs.  The result holds the Result of the  *)
(* call and the contents of the two output buffers when it returns.        *)


NullCell == AsVec([f \in 1 .. FIELD_ELEMENTS_PER_CELL |-> Null])

(* The scatter loop from its i-th round on; it stops at the first target   *)
(* cell that holds a scalar which is not null.                             *)
RECURSIVE Scatter(_, _, _, _)
Scatter(buf, cell_indices, cells, i) ==
    IF i > Len(cells) THEN [err |-> "", val |-> buf]
    ELSE LET index == cell_indices[i]
         IN  IF \E f \in 1 .. FIELD_ELEMENTS_PER_CELL : ~IsNull(buf[index + 1][f])
             THEN [err |-> "Invalid output cell", val |-> buf]
             ELSE Scatter([buf EXCEPT ![index + 1] = cells[i]], cell_indices, cells, i + 1)

(* The proofs buffer takes the FK20 result and is put in bit-reversed      *)
(* order.                                                                  *)
StoreRecoveredProofs(res, cells_out, proofs_buf) ==
    IF res.err # "" THEN Returned(Failed(res.err), cells_out, proofs_buf)
    ELSE IF Len(res.val) # Len(proofs_buf[1])
    THEN Returned("panic: clone_from_slice", cells_out, proofs_buf)
    ELSE IF reverse_bit_order_fails(res.val)
    THEN Returned("Err: reverse_bit_order", cells_out, Some(res.val))
    ELSE Returned("Ok", cells_out, Some(reverse_bit_order(res.val)))

ProofsOfCells(flat, cells_out, proofs_buf) ==
    IF reverse_bit_order_fails(flat) \/ fft_fails(flat)
    THEN Returned("Err: lagrange to monomial", cells_out, proofs_buf)
    ELSE StoreRecoveredProofs(
            compute_fk20_proofs(poly_lagrange_to_monomial(flat), FIELD_ELEMENTS_PER_BLOB),
            cells_out, proofs_buf)

RecoverProofs(cells_out, proofs_buf) ==
    IF ~IsSome(proofs_buf) THEN Returned("Ok", cells_out, proofs_buf)
    ELSE ProofsOfCells(Flatten(cells_out), cells_out, proofs_buf)

(* The call from the recovery of the missing cells on. *)
StoreRecoveredCells(rec, cells_out, proofs_buf) ==
    IF rec.err # "" THEN Returned(Failed(rec.err), cells_out, proofs_buf)
    ELSE RecoverProofs(Unflatten(rec.val), proofs_buf)

RecoverMissing(cells_out, proofs_buf, cell_indices, num_cells) ==
    IF num_cells # CELLS_PER_EXT_BLOB
    THEN StoreRecoveredCells(recover_cells(Flatten(cells_out), cell_indices),
                             cells_out, proofs_buf)
    ELSE RecoverProofs(cells_out, proofs_buf)

(* A variant that scatters into a copy and leaves the caller's buffer      *)
(* alone when a slot is written twice.                                     *)
ScatterIntoCopy(cells_buf, proofs_buf, cell_indices, cells) ==
    LET nulled == AsVec([c \in 1 .. Len(cells_buf) |-> NullCell])
        scattered == Scatter(nulled, cell_indices, cells, 1)
    IN  IF scattered.err # ""
        THEN Returned(Failed(scattered.err), cells_buf, proofs_buf)
        ELSE RecoverMissing(scattered.val, proofs_buf, cell_indices, Len(cells))

(* The call from its first write to the outputs on: every output cell is   *)
(* set to null markers, the given cells are scattered into their slots.    *)
ScatterAndRecover(cells_buf, proofs_buf, cell_indices, cells) ==
    LET nulled == AsVec([c \in 1 .. Len(cells_buf) |-> NullCell])
        scattered == Scatter(nulled, cell_indices, cells, 1)
    IN  IF scattered.err # ""
        THEN Returned(Failed(scattered.err), scattered.val, proofs_buf)
        ELSE RecoverMissing(scattered.val, proofs_buf, cell_indices, Len(cells))

recover_cells_and_kzg_proofs(cells_buf, proofs_buf, cell_indices, cells) ==
    IF Len(cells_buf) # CELLS_PER_EXT_BLOB
       \/ (IsSome(proofs_buf) /\ Len(proofs_buf[1]) # CELLS_PER_EXT_BLOB)
    THEN Returned("Err: Invalid output array length", cells_buf, proofs_buf)
    ELSE IF Len(cells) # Len(cell_indices)
    THEN Returned("Err: Cell indicies mismatch", cells_buf, proofs_buf)
    ELSE IF Len(cells) > CELLS_PER_EXT_BLOB
    THEN Returned("Err: Cell length cannot be larger than CELLS_PER_EXT_BLOB",
                  cells_buf, proofs_buf)
    ELSE IF Len(cells) < CELLS_PER_EXT_BLOB \div 2
    THEN Returned("Err: Impossible to recover", cells_buf, proofs_buf)
    ELSE IF \E i \in 1 .. Len(cell_indices) : cell_indices[i] >= CELLS_PER_EXT_BLOB
    THEN Returned("Err: Cell index cannot be larger than CELLS_PER_EXT_BLOB",
                  cells_buf, proofs_buf)
    ELSE ScatterAndRecover(cells_buf, proofs_buf, cell_indices, cells)

----------------------------------------------------------------------------
(* Batched verification: commitment deduplication.                         *)

(* A G1 point outside the prime-order subgroup; is_valid rejects it.       *)
PointOffSubgroup == Modulus

G1IsValid(p) == p \in Fr

(* The loop of deduplicate_commitments from round i on (i is the code's    *)
(* index): st holds the commitments, the indices and new_count so far.     *)
RECURSIVE DedupLoop(_, _, _)
DedupLoop(st, i, count) ==
    IF i >= count THEN st
    ELSE
    LET found == {j \in 0 .. (st.new_count - 1) :
                    st.commitments[i + 1] = st.commitments[j + 1]}
    IN  IF found # {}
        THEN DedupLoop([st EXCEPT !.indicies[i + 1] =
                            CHOOSE j \in found : \A j2 \in found : j <= j2],
                       i + 1, count)
        ELSE DedupLoop([commitments |-> [st.commitments EXCEPT ![st.new_count + 1] =
                                            st.commitments[i + 1]],
                        indicies |-> [st.indicies EXCEPT ![i + 1] = st.new_count],
                        new_count |-> st.new_count + 1],
                       i + 1, count)

(* The loop's result: the commitments and indices as the loop leaves them  *)
(* and the loop's own new_count.                                           *)
DedupResult(commitments, indicies, count) ==
    IF count = 0
    THEN [commitments |-> commitments, indicies |-> indicies, new_count |-> 0]
    ELSE DedupLoop([commitments |-> commitments,
                    indicies |-> [indicies EXCEPT ![1] = 0],
                    new_count |-> 1], 1, count)

(* deduplicate_commitments: what the caller sees in its three arguments on *)
(* return.  The function never stores its new_count into *count.          *)
deduplicate_commitments(commitments, indicies, count) ==
    LET st == DedupResult(commitments, indicies, count)
    IN  [commitments |-> st.commitments, indicies |-> st.indicies, count |-> count]

----------------------------------------------------------------------------
(* Batched verification: the challenge.                                    *)

BYTES_PER_COMMITMENT == 48
BYTES_PER_PROOF == 48
BYTES_PER_FIELD_ELEMENT == 32
BYTES_PER_U64 == 8

(* "RCKZGCBATCH__V1_" *)
RANDOM_CHALLENGE_KZG_CELL_BATCH_DOMAIN ==
    <<82, 67, 75, 90, 71, 67, 66, 65, 84, 67, 72, 95, 95, 86, 49, 95>>

(* The big-endian bytes of v, width of them; v is below 256^4. *)
ToBeBytes(v, width) ==
    AsVec([i \in 1 .. width |->
        IF width - i >= 4 THEN 0 ELSE (v \div (256 ^ (width - i))) % 256])

FromBeBytes(bytes) ==
    LET acc[i \in 0 .. Len(bytes)] == IF i = 0 THEN 0 ELSE acc[i - 1] * 256 + bytes[i]
    IN  acc[Len(bytes)]

U64ToBeBytes(v) == ToBeBytes(v, BYTES_PER_U64)
FrToBytes(x) == ToBeBytes(x, BYTES_PER_FIELD_ELEMENT)
G1ToBytes(p) == ToBeBytes(p, BYTES_PER_COMMITMENT)

RECURSIVE ConcatAll(_)
ConcatAll(ss) == IF ss = <<>> THEN <<>> ELSE Head(ss) \o ConcatAll(Tail(ss))

(* hash followed by hash_to_bls_field: a digest of every byte and of its   *)
(* position, reduced to the field.                                         *)
RECURSIVE DigestRange(_, _, _)
DigestRange(bytes, lo, hi) ==
    IF lo > hi THEN 0
    ELSE IF lo = hi THEN (bytes[lo] + 1) * ((lo % 251) + 1)
    ELSE LET mid == (lo + hi) \div 2
         IN  (DigestRange(bytes, lo, mid) + DigestRange(bytes, mid + 1, hi)) % 65521

HashToBlsField(bytes) == DigestRange(bytes, 1, Len(bytes)) % Modulus

compute_powers(r, n) == AsVec([i \in 1 .. n |-> FrPow(r, i - 1)])

ChallengeInputSize(num_commitments, num_cells) ==
    Len(RANDOM_CHALLENGE_KZG_CELL_BATCH_DOMAIN)
    + BYTES_PER_U64 + BYTES_PER_U64 + BYTES_PER_U64
    + num_commitments * BYTES_PER_COMMITMENT
    + num_cells * BYTES_PER_U64
    + num_cells * BYTES_PER_U64
    + num_cells * (FIELD_ELEMENTS_PER_CELL * BYTES_PER_FIELD_ELEMENT)
    + num_cells * BYTES_PER_PROOF

ChallengeBytes(commitments, commitment_indices, cell_indices, cells, proofs) ==
    RANDOM_CHALLENGE_KZG_CELL_BATCH_DOMAIN
    \o U64ToBeBytes(FIELD_ELEMENTS_PER_CELL)
    \o U64ToBeBytes(Len(commitments))
    \o U64ToBeBytes(Len(cells))
    \o ConcatAll([c \in 1 .. Len(commitments) |-> G1ToBytes(commitments[c])])
    \o ConcatAll([i \in 1 .. Len(cells) |->
            U64ToBeBytes(commitment_indices[i])
            \o U64ToBeBytes(cell_indices[i])
            \o ConcatAll([f \in 1 .. FIELD_ELEMENTS_PER_CELL |-> FrToBytes(cells[i][f])])
            \o G1ToBytes(proofs[i])])

(* The result carries the hashed buffer next to the powers of r. *)
compute_r_powers_for_verify_cell_kzg_proof_batch(commitments, commitment_indices, cell_indices, cells, proofs) ==
    IF Len(commitment_indices) # Len(cells)
       \/ Len(cell_indices) # Len(cells)
       \/ Len(proofs) # Len(cells)
    THEN [err |-> "Cell count mismatch", val |-> <<>>, bytes |-> <<>>]
    ELSE
    LET input_size == ChallengeInputSize(Len(commitments), Len(cells))
        bytes == ChallengeBytes(commitments, commitment_indices, cell_indices, cells, proofs)
    IN  IF Len(bytes) # input_size
        THEN [err |-> "Failed to create challenge - invalid length",
              val |-> <<>>, bytes |-> bytes]
        ELSE [err |-> "", val |-> compute_powers(HashToBlsField(bytes), Len(cells)),
              bytes |-> bytes]

----------------------------------------------------------------------------
(* Batched verification: the three sums.                                   *)

(* The loop of the sequential build from round i on. *)
RECURSIVE WeightsLoop(_, _, _, _)
WeightsLoop(weights, commitment_indices, r_powers, i) ==
    IF i > Len(r_powers) THEN weights
    ELSE WeightsLoop([weights EXCEPT ![commitment_indices[i] + 1] =
                            FrAdd(weights[commitment_indices[i] + 1], r_powers[i])],
                     commitment_indices, r_powers, i + 1)

CommitmentWeightsSequential(num_commitments, commitment_indices, r_powers) ==
    WeightsLoop(AsVec([j \in 1 .. num_commitments |-> 0]), commitment_indices, r_powers, 1)

(* A variant that keeps only the chunks of full size. *)
ChunksExact(s, chunk_size) ==
    AsVec([c \in 1 .. (Len(s) \div chunk_size) |->
        SubSeq(s, (c - 1) * chunk_size + 1, c * chunk_size)])

(* The parallel build: chunks of chunk_size rows, one local weight vector  *)
(* per chunk, added up chunk after chunk.                                  *)
Chunks(s, chunk_size) ==
    AsVec([c \in 1 .. ((Len(s) + chunk_size - 1) \div chunk_size) |->
        SubSeq(s, (c - 1) * chunk_size + 1,
               IF c * chunk_size < Len(s) THEN c * chunk_size ELSE Len(s))])

RECURSIVE AddLocalWeights(_, _, _)
AddLocalWeights(weights, locals, c) ==
    IF c > Len(locals) THEN weights
    ELSE AddLocalWeights(AsVec([j \in 1 .. Len(weights) |-> FrAdd(weights[j], locals[c][j])]),
                         locals, c + 1)

CommitmentWeightsParallel(num_commitments, commitment_indices, r_powers, num_threads) ==
    LET chunk_size == (Len(r_powers) + num_threads - 1) \div num_threads
        r_chunks == Chunks(r_powers, chunk_size)
        idx_chunks == Chunks(commitment_indices, chunk_size)
        zipped == IF Len(r_chunks) < Len(idx_chunks) THEN Len(r_chunks) ELSE Len(idx_chunks)
        intermediate_weights ==
            AsVec([c \in 1 .. zipped |->
                LET len == IF Len(r_chunks[c]) < Len(idx_chunks[c])
                           THEN Len(r_chunks[c]) ELSE Len(idx_chunks[c])
                IN  WeightsLoop(AsVec([j \in 1 .. num_commitments |-> 0]),
                                SubSeq(idx_chunks[c], 1, len),
                                SubSeq(r_chunks[c], 1, len), 1)])
    IN  AddLocalWeights(AsVec([j \in 1 .. num_commitments |-> 0]), intermediate_weights, 1)

compute_weighted_sum_of_commitments(commitments, commitment_indices, r_powers) ==
    g1_lincomb(commitments,
               CommitmentWeightsSequential(Len(commitments), commitment_indices, r_powers),
               Len(commitments))

get_inv_coset_shift_for_cell(cell_index) ==
    LET cell_index_rbl == CELL_INDICES_RBL[cell_index + 1]
    IN  IF cell_index_rbl > FIELD_ELEMENTS_PER_EXT_BLOB THEN Err("Invalid cell index")
        ELSE Ok(get_roots_of_unity_at(FIELD_ELEMENTS_PER_EXT_BLOB - cell_index_rbl))

get_coset_shift_pow_for_cell(cell_index) ==
    LET h_k_pow_idx == CELL_INDICES_RBL[cell_index + 1] * FIELD_ELEMENTS_PER_CELL
    IN  IF h_k_pow_idx > FIELD_ELEMENTS_PER_EXT_BLOB THEN Err("Invalid cell index")
        ELSE Ok(get_roots_of_unity_at(h_k_pow_idx))

(* The table as the source spells it out, for CELLS_PER_EXT_BLOB = 128,    *)
(* and the two functions over it for a preset P.  They return the place in *)
(* the expanded roots of unity whose root the source returns.              *)
CELL_INDICES_RBL_128 ==
    <<
        0,  64,  32,  96,  16,  80,  48, 112,   8,  72,  40, 104,  24,  88,  56, 120,
        4,  68,  36, 100,  20,  84,  52, 116,  12,  76,  44, 108,  28,  92,  60, 124,
        2,  66,  34,  98,  18,  82,  50, 114,  10,  74,  42, 106,  26,  90,  58, 122,
        6,  70,  38, 102,  22,  86,  54, 118,  14,  78,  46, 110,  30,  94,  62, 126,
        1,  65,  33,  97,  17,  81,  49, 113,   9,  73,  41, 105,  25,  89,  57, 121,
        5,  69,  37, 101,  21,  85,  53, 117,  13,  77,  45, 109,  29,  93,  61, 125,
        3,  67,  35,  99,  19,  83,  51, 115,  11,  75,  43, 107,  27,  91,  59, 123,
        7,  71,  39, 103,  23,  87,  55, 119,  15,  79,  47, 111,  31,  95,  63, 127 >>

MainnetPreset ==
    [FIELD_ELEMENTS_PER_CELL |-> 64, FIELD_ELEMENTS_PER_BLOB |-> 4096,
     FIELD_ELEMENTS_PER_EXT_BLOB |-> 8192, CELLS_PER_EXT_BLOB |-> 128]

InvCosetShiftIndex(P, cell_index) ==
    IF cell_index >= Len(CELL_INDICES_RBL_128) THEN Err("panic: index out of bounds")
    ELSE IF CELL_INDICES_RBL_128[cell_index + 1] > P.FIELD_ELEMENTS_PER_EXT_BLOB
    THEN Err("Invalid cell index")
    ELSE IF P.FIELD_ELEMENTS_PER_EXT_BLOB - CELL_INDICES_RBL_128[cell_index + 1]
                > P.FIELD_ELEMENTS_PER_EXT_BLOB
    THEN Err("Invalid cell index")
    ELSE Ok(P.FIELD_ELEMENTS_PER_EXT_BLOB - CELL_INDICES_RBL_128[cell_index + 1])

(* A variant that takes the cell index itself for the place of the coset   *)
(* factor.                                                                 *)
CosetShiftPowIndexUnreversed(P, cell_index) ==
    IF cell_index >= Len(CELL_INDICES_RBL_128) THEN Err("panic: index out of bounds")
    ELSE IF cell_index * P.FIELD_ELEMENTS_PER_CELL > P.FIELD_ELEMENTS_PER_EXT_BLOB
    THEN Err("Invalid cell index")
    ELSE Ok(cell_index * P.FIELD_ELEMENTS_PER_CELL)

CosetShiftPowIndex(P, cell_index) ==
    IF cell_index >= Len(CELL_INDICES_RBL_128) THEN Err("panic: index out of bounds")
    ELSE IF CELL_INDICES_RBL_128[cell_index + 1] * P.FIELD_ELEMENTS_PER_CELL
                > P.FIELD_ELEMENTS_PER_EXT_BLOB
    THEN Err("Invalid cell index")
    ELSE Ok(CELL_INDICES_RBL_128[cell_index + 1] * P.FIELD_ELEMENTS_PER_CELL)

(* aggregated_column_cells after the rows 1 .. i have been added. *)
AggregatedColumnCells(r_powers, cell_indices, cells) ==
    LET agg[i \in 0 .. Len(cell_indices)] ==
            IF i = 0 THEN AsVec([a \in 1 .. (CELLS_PER_EXT_BLOB * FIELD_ELEMENTS_PER_CELL) |-> 0])
            ELSE AsVec([a \in 1 .. (CELLS_PER_EXT_BLOB * FIELD_ELEMENTS_PER_CELL) |->
                    LET column_index == (a - 1) \div FIELD_ELEMENTS_PER_CELL
                        fr_index == (a - 1) % FIELD_ELEMENTS_PER_CELL
                    IN  IF column_index = cell_indices[i]
                        THEN FrAdd(agg[i - 1][a], FrMul(cells[i][fr_index + 1], r_powers[i]))
                        ELSE agg[i - 1][a]])
    IN  agg[Len(cell_indices)]

ColumnInterpolationPoly(aggregated_column_cells, i) ==
    LET index == i * FIELD_ELEMENTS_PER_CELL
        column == reverse_bit_order(
                    SubSeq(aggregated_column_cells, index + 1, index + FIELD_ELEMENTS_PER_CELL))
    IN  shift_poly(fft_fr(column, TRUE), get_inv_coset_shift_for_cell(i).val)

compute_commitment_to_aggregated_interpolation_poly(r_powers, cell_indices, cells) ==
    LET aggregated_column_cells == AggregatedColumnCells(r_powers, cell_indices, cells)
        used == {i \in 0 .. (CELLS_PER_EXT_BLOB - 1) : Contains(cell_indices, i)}
        sum[i \in 0 .. CELLS_PER_EXT_BLOB] ==
            IF i = 0 THEN AsVec([k \in 1 .. FIELD_ELEMENTS_PER_CELL |-> 0])
            ELSE IF (i - 1) \notin used THEN sum[i - 1]
            ELSE LET column_interpolation_poly ==
                        ColumnInterpolationPoly(aggregated_column_cells, i - 1)
                 IN  AsVec([k \in 1 .. FIELD_ELEMENTS_PER_CELL |->
                            FrAdd(sum[i - 1][k], column_interpolation_poly[k])])
    IN  IF used # {} /\ (reverse_bit_order_fails(sum[0]) \/ fft_fails(sum[0]))
        THEN Err("Invalid column length")
        ELSE IF \E i \in used : get_inv_coset_shift_for_cell(i).err # ""
        THEN Err("Invalid cell index")
        ELSE Ok(g1_lincomb(g1_monomial, sum[CELLS_PER_EXT_BLOB], FIELD_ELEMENTS_PER_CELL))

computed_weighted_sum_of_proofs(proofs, r_powers, cell_indices) ==
    LET num_cells == Len(proofs)
    IN  IF Len(r_powers) # num_cells \/ Len(cell_indices) # num_cells
        THEN Err("Length mismatch")
        ELSE IF \E i \in 1 .. num_cells : get_coset_shift_pow_for_cell(cell_indices[i]).err # ""
        THEN Err("Invalid cell index")
        ELSE Ok(g1_lincomb(proofs,
                    AsVec([i \in 1 .. num_cells |->
                        FrMul(r_powers[i], get_coset_shift_pow_for_cell(cell_indices[i]).val)]),
                    num_cells))

----------------------------------------------------------------------------
(* verify_cell_kzg_proof_batch.  The result carries, next to the returned  *)
(* value, what the function handed to its helpers.                         *)

NoObs == [reached |-> "none"]

Verified(r, o) == [ret |-> r, obs |-> o]

(* A variant that compares no lengths when there are no cells. *)
CheckLengthsUnlessEmpty(commitments, cell_indices, cells, proofs) ==
    IF Len(cells) = 0 THEN ""
    ELSE IF Len(cells) # Len(cell_indices) THEN "Cell count mismatch"
    ELSE IF Len(commitments) # Len(cells) THEN "Commitment count mismatch"
    ELSE IF Len(proofs) # Len(cells) THEN "Proof count mismatch"
    ELSE ""

(* The three length checks that open the function: the error of the first  *)
(* that fails, "" when all pass.                                           *)
CheckLengths(commitments, cell_indices, cells, proofs) ==
    IF Len(cells) # Len(cell_indices) THEN "Cell count mismatch"
    ELSE IF Len(commitments) # Len(cells) THEN "Commitment count mismatch"
    ELSE IF Len(proofs) # Len(cells) THEN "Proof count mismatch"
    ELSE ""

(* A variant that leaves the last point unchecked. *)
AnyInvalidButLast(points) == \E i \in 1 .. (Len(points) - 1) : ~G1IsValid(points[i])

(* .any(|point| !point.is_valid()) *)
AnyInvalid(points) == \E i \in 1 .. Len(points) : ~G1IsValid(points[i])

verify_cell_kzg_proof_batch(commitments, cell_indices, cells, proofs) ==
    IF CheckLengths(commitments, cell_indices, cells, proofs) # ""
    THEN Verified("Err: " \o CheckLengths(commitments, cell_indices, cells, proofs), NoObs)
    ELSE IF Len(cells) = 0 THEN Verified("Ok(true)", NoObs)
    ELSE IF \E i \in 1 .. Len(cell_indices) : cell_indices[i] >= CELLS_PER_EXT_BLOB
    THEN Verified("Err: Invalid cell index", NoObs)
    ELSE IF AnyInvalid(proofs)
    THEN Verified("Err: Proof is not valid", NoObs)
    ELSE
    LET dedup == deduplicate_commitments(commitments,
                                         AsVec([i \in 1 .. Len(cells) |-> 0]),
                                         Len(commitments))
        new_count == dedup.count
        commitment_indices == dedup.indicies
    IN  IF AnyInvalid(dedup.commitments)
        THEN Verified("Err: Commitment is not valid", NoObs)
        ELSE
        LET unique_commitments == SubSeq(dedup.commitments, 1, new_count)
            challenge == compute_r_powers_for_verify_cell_kzg_proof_batch(
                            unique_commitments, commitment_indices, cell_indices, cells, proofs)
            r_powers == challenge.val
            seen == [reached |-> "challenge",
                     unique_commitments |-> unique_commitments,
                     commitment_indices |-> commitment_indices,
                     bytes |-> challenge.bytes,
                     r_powers |-> r_powers]
        IN  IF challenge.err # "" THEN Verified(Failed(challenge.err), seen)
            ELSE
            LET proof_lincomb == g1_lincomb(proofs, r_powers, Len(cells))
                weighted_commitments == compute_weighted_sum_of_commitments(
                                            unique_commitments, commitment_indices, r_powers)
                interpolation_poly_commit ==
                    compute_commitment_to_aggregated_interpolation_poly(
                        r_powers, cell_indices, cells)
                weighted_sum_of_proofs ==
                    computed_weighted_sum_of_proofs(proofs, r_powers, cell_indices)
            IN  IF interpolation_poly_commit.err # ""
                THEN Verified(Failed(interpolation_poly_commit.err), seen)
                ELSE IF weighted_sum_of_proofs.err # ""
                THEN Verified(Failed(weighted_sum_of_proofs.err), seen)
                ELSE
                LET final_g1_sum == FrAdd(FrSub(weighted_commitments,
                                                interpolation_poly_commit.val),
                                          weighted_sum_of_proofs.val)
                    power_of_s == g2_monomial[FIELD_ELEMENTS_PER_CELL + 1]
                IN  Verified(IF PairingVerify(final_g1_sum, G2Generator,
                                              proof_lincomb, power_of_s)
                             THEN "Ok(true)" ELSE "Ok(false)", seen)

----------------------------------------------------------------------------
(* The callers' inputs.                                                    *)

NumBlobs == 3

SampleBlob(j) ==
    AsVec([i \in 1 .. FIELD_ELEMENTS_PER_BLOB |-> (7 * j + (j + 2) * i * i + i) % Modulus])

Blobs == {SampleBlob(j) : j \in 1 .. NumBlobs}

ZeroCell == AsVec([f \in 1 .. FIELD_ELEMENTS_PER_CELL |-> 0])

ZeroCells(n) == AsVec([c \in 1 .. n |-> ZeroCell])

ZeroPoints(n) == AsVec([c \in 1 .. n |-> 0])

(* Output buffers as the caller allocates them: of the preset's size or    *)
(* one short, the proofs buffer optional.                                  *)
CellBuffers == {ZeroCells(n) : n \in {CELLS_PER_EXT_BLOB, CELLS_PER_EXT_BLOB - 1}}

ProofBuffers == {None, Some(ZeroPoints(CELLS_PER_EXT_BLOB))}

(* Output buffers for compute_cells_and_kzg_proofs: absent, or of any      *)
(* length up to one more than the preset's.                                *)
OutputCellBuffers ==
    {None} \cup {Some(ZeroCells(n)) : n \in 0 .. (CELLS_PER_EXT_BLOB + 1)}

OutputProofBuffers ==
    {None} \cup {Some(ZeroPoints(n)) : n \in 0 .. (CELLS_PER_EXT_BLOB + 1)}

(* Index lists of every length up to all cells, over the valid indices and *)
(* the first invalid one; and the full list with one more entry.           *)
IndexLists ==
    UNION {[1 .. n -> 0 .. CELLS_PER_EXT_BLOB] : n \in 0 .. CELLS_PER_EXT_BLOB}
    \cup {[i \in 1 .. (CELLS_PER_EXT_BLOB + 1) |-> (i - 1) % CELLS_PER_EXT_BLOB]}

Tampers == {"none", "null_cell", "null_scalar", "flip"}

TamperCell(cell, how) ==
    IF how = "null_cell" THEN NullCell
    ELSE IF how = "null_scalar" THEN [cell EXCEPT ![1] = Null]
    ELSE IF how = "flip" THEN [cell EXCEPT ![1] = FrAdd(cell[1], 1)]
    ELSE cell

(* The cells of the extended blob at the listed indices, the first one     *)
(* tampered with as `how` says.                                            *)
CellsAt(ext, cell_indices, how) ==
    AsVec([i \in 1 .. Len(cell_indices) |->
        LET c == IF cell_indices[i] < CELLS_PER_EXT_BLOB
                 THEN ext[cell_indices[i] + 1] ELSE ZeroCell
        IN  IF i = 1 THEN TamperCell(c, how) ELSE c])

Distinct(s) == \A i, j \in 1 .. Len(s) : i # j => s[i] # s[j]

InRange(s) == \A i \in 1 .. Len(s) : s[i] < CELLS_PER_EXT_BLOB

(* Batches for verification.  A batch has up to MaxRows rows; its cell     *)
(* indices run from `first` in steps of `step` around the extended blob,   *)
(* its cells and proofs are the blob's at these indices.                   *)
MaxRows == 3

IndexRun(first, step, n) ==
    AsVec([i \in 1 .. n |-> (first + (i - 1) * step) % CELLS_PER_EXT_BLOB])

IndexRuns ==
    {IndexRun(first, step, n) : first \in 0 .. (CELLS_PER_EXT_BLOB - 1),
                                step \in 0 .. (CELLS_PER_EXT_BLOB - 1),
                                n \in 0 .. MaxRows}
    \cup {IndexRun(0, 1, CELLS_PER_EXT_BLOB)}

(* Which rows share a commitment: row i carries the blob's commitment      *)
(* moved by pattern[i]; a pattern introduces its values in order.          *)
CommitmentPatterns(n) ==
    {p \in [1 .. n -> 0 .. (MaxRows - 1)] :
        \A i \in 1 .. n : \A v \in 0 .. (p[i] - 1) : \E j \in 1 .. (i - 1) : p[j] = v}

Defects == {"none", "index_out_of_range", "bad_proof", "bad_commitment", "flip_cell",
            "short_cells", "short_indices", "short_commitments", "short_proofs"}

DropLast(s) == SubSeq(s, 1, Len(s) - 1)

(* The batch with the defect applied to its last row. *)
Batch(own_commitment, ext_cells, ext_proofs, run, pattern, defect) ==
    LET n == Len(run)
        cell_indices == IF defect = "index_out_of_range"
                        THEN [run EXCEPT ![n] = CELLS_PER_EXT_BLOB] ELSE run
        commitments == AsVec([i \in 1 .. n |->
                            IF defect = "bad_commitment" /\ i = n THEN PointOffSubgroup
                            ELSE FrAdd(own_commitment, pattern[i])])
        cells == AsVec([i \in 1 .. n |->
                            IF defect = "flip_cell" /\ i = n
                            THEN TamperCell(ext_cells[run[i] + 1], "flip")
                            ELSE ext_cells[run[i] + 1]])
        proofs == AsVec([i \in 1 .. n |->
                            IF defect = "bad_proof" /\ i = n THEN PointOffSubgroup
                            ELSE ext_proofs[run[i] + 1]])
    IN  [commitments |-> IF defect = "short_commitments" THEN DropLast(commitments)
                         ELSE commitments,
         cell_indices |-> IF defect = "short_indices" THEN DropLast(cell_indices)
                          ELSE cell_indices,
         cells |-> IF defect = "short_cells" THEN DropLast(cells) ELSE cells,
         proofs |-> IF defect = "short_proofs" THEN DropLast(proofs) ELSE proofs,
         defect |-> defect]

(* Inputs of the weighted sum of commitments: one index per row into       *)
(* num_commitments commitments, the powers of r, the size of the pool.     *)
MaxThreads == 4

WeightInputs ==
    {[num_commitments |-> Len(ci), commitment_indices |-> ci,
      r_powers |-> compute_powers(r, Len(ci)), num_threads |-> t] :
        ci \in UNION {[1 .. m -> 0 .. (m - 1)] : m \in 1 .. MaxRows},
        r \in Fr, t \in 1 .. MaxThreads}

----------------------------------------------------------------------------
(* A caller: it computes the cells and proofs of its blob, then calls one  *)
(* more operation.                                                         *)

Init ==
    /\ pc = "start"
    /\ op = "none"
    /\ blob \in Blobs
    /\ commitment = 0
    /\ blob_cells = ZeroCells(CELLS_PER_EXT_BLOB)
    /\ blob_proofs = ZeroPoints(CELLS_PER_EXT_BLOB)
    /\ args = <<>>
    /\ ret = "none"
    /\ recovered_cells \in CellBuffers
    /\ recovered_proofs \in ProofBuffers
    /\ obs = <<>>

Compute ==
    /\ pc = "start"
    /\ LET r == compute_cells_and_kzg_proofs(Some(blob_cells), Some(blob_proofs), blob)
       IN  /\ ret' = r.ret
           /\ blob_cells' = r.cells[1]
           /\ blob_proofs' = r.proofs[1]
    /\ commitment' = Commit(blob)
    /\ pc' = "ready"
    /\ op' = "compute"
    /\ UNCHANGED <<blob, args, recovered_cells, recovered_proofs, obs>>

Recover ==
    /\ pc = "ready"
    /\ \E cell_indices \in IndexLists, how \in Tampers, drop \in BOOLEAN :
        LET given == CellsAt(blob_cells, cell_indices, how)
            input == IF drop /\ Len(given) > 0
                     THEN SubSeq(given, 1, Len(given) - 1) ELSE given
            r == recover_cells_and_kzg_proofs(recovered_cells, recovered_proofs,
                                              cell_indices, input)
        IN  /\ (drop => how = "none" /\ Distinct(cell_indices) /\ InRange(cell_indices))
            /\ args' = [recovered_cells |-> recovered_cells,
                        recovered_proofs |-> recovered_proofs,
                        cell_indices |-> cell_indices, cells |-> input, tamper |-> how]
            /\ ret' = r.ret
            /\ recovered_cells' = r.cells
            /\ recovered_proofs' = r.proofs
    /\ pc' = "done"
    /\ op' = "recover"
    /\ UNCHANGED <<blob, commitment, blob_cells, blob_proofs, obs>>

Verify ==
    /\ pc = "ready"
    /\ \E run \in IndexRuns, defect \in Defects :
        \E pattern \in CommitmentPatterns(Len(run)) :
            LET batch == Batch(commitment, blob_cells, blob_proofs, run, pattern, defect)
                r == verify_cell_kzg_proof_batch(batch.commitments, batch.cell_indices,
                                                 batch.cells, batch.proofs)
            IN  /\ (Len(run) = 0 => defect = "none")
                /\ (Len(run) > MaxRows => defect \in {"none", "flip_cell"} /\ pattern = [i \in 1 .. Len(run) |-> 0])
                /\ args' = batch
                /\ ret' = r.ret
                /\ obs' = r.obs
    /\ pc' = "done"
    /\ op' = "verify"
    /\ UNCHANGED <<blob, commitment, blob_cells, blob_proofs, recovered_cells,
                   recovered_proofs>>

(* A caller of the weighted sum alone, on both builds of the crate. *)
InitWeights ==
    /\ pc = "ready"
    /\ op = "none"
    /\ blob = <<>>
    /\ commitment = 0
    /\ blob_cells = <<>>
    /\ blob_proofs = <<>>
    /\ args \in WeightInputs
    /\ ret = "none"
    /\ recovered_cells = <<>>
    /\ recovered_proofs = None
    /\ obs = <<>>

Weigh ==
    /\ pc = "ready"
    /\ op = "none"
    /\ obs' = [sequential |-> CommitmentWeightsSequential(
                                args.num_commitments, args.commitment_indices, args.r_powers),
               parallel |-> CommitmentWeightsParallel(
                                args.num_commitments, args.commitment_indices, args.r_powers,
                                args.num_threads)]
    /\ pc' = "done"
    /\ op' = "weights"
    /\ ret' = "Ok"
    /\ UNCHANGED <<blob, commitment, blob_cells, blob_proofs, args, recovered_cells,
                   recovered_proofs>>

(* A call of compute_cells_and_kzg_proofs with output buffers of the      *)
(* caller's choice, in either build.                                       *)
ComputeInto ==
    /\ pc = "start"
    /\ \E cells \in OutputCellBuffers, proofs \in OutputProofBuffers, parallel \in BOOLEAN :
        \E r \in {IF parallel
                  THEN compute_cells_and_kzg_proofs_parallel(cells, proofs, blob)
                  ELSE compute_cells_and_kzg_proofs(cells, proofs, blob)} :
            /\ args' = [cells |-> cells, proofs |-> proofs, parallel |-> parallel]
            /\ ret' = r.ret
            /\ obs' = [cells |-> r.cells, proofs |-> r.proofs]
    /\ pc' = "done"
    /\ op' = "compute_into"
    /\ UNCHANGED <<blob, commitment, blob_cells, blob_proofs, recovered_cells,
                   recovered_proofs>>

(* The harnesses of the transform over G1.  make_data gives the point of  *)
(* index i as a multiple of the generator that is quadratic in i; the      *)
(* ascending multiples are among them.                                     *)
MaxDataCoeff == 2

make_data(n, a, b, c) == AsVec([i \in 1 .. n |-> (a + b * i + c * i * i) % Modulus])

Scales == 0 .. TwoAdicity

InitIdle ==
    /\ pc = "start"
    /\ op = "none"
    /\ blob = <<>>
    /\ commitment = 0
    /\ blob_cells = <<>>
    /\ blob_proofs = <<>>
    /\ args = <<>>
    /\ ret = "none"
    /\ recovered_cells = <<>>
    /\ recovered_proofs = None
    /\ obs = <<>>

IdleUnchanged ==
    UNCHANGED <<blob, commitment, blob_cells, blob_proofs, recovered_cells,
                recovered_proofs>>

roundtrip_fft ==
    /\ pc = "start"
    /\ \E size \in Scales, a, b, c \in 0 .. MaxDataCoeff :
        \E fs \in {FFTSettingsNew(size)} :
        \E expected \in {make_data(fs.max_width, a, b, c)} :
        \E coeffs \in {FftG1(fs, expected, FALSE)} :
        \E data \in {IF coeffs.err = "" THEN FftG1(fs, coeffs.val, TRUE) ELSE coeffs} :
            /\ args' = [size |-> size, max_width |-> fs.max_width, expected |-> expected]
            /\ ret' = IF data.err = "" THEN "Ok" ELSE Failed(data.err)
            /\ obs' = [coeffs |-> coeffs.val, data |-> data.val]
    /\ pc' = "done"
    /\ op' = "roundtrip_fft"
    /\ IdleUnchanged

stride_fft ==
    /\ pc = "start"
    /\ \E size1, size2 \in Scales, a, b, c \in 0 .. MaxDataCoeff :
        \E width \in {IF size1 < size2 THEN Pow2(size1) ELSE Pow2(size2)} :
        \E data \in {make_data(width, a, b, c)} :
        \E coeffs1 \in {FftG1(FFTSettingsNew(size1), data, FALSE)} :
        \E coeffs2 \in {FftG1(FFTSettingsNew(size2), data, FALSE)} :
            /\ args' = [size1 |-> size1, size2 |-> size2, width |-> width, data |-> data]
            /\ ret' = IF coeffs1.err # "" THEN Failed(coeffs1.err)
                      ELSE IF coeffs2.err # "" THEN Failed(coeffs2.err) ELSE "Ok"
            /\ obs' = [coeffs1 |-> coeffs1.val, coeffs2 |-> coeffs2.val]
    /\ pc' = "done"
    /\ op' = "stride_fft"
    /\ IdleUnchanged

compare_sft_fft ==
    /\ pc = "start"
    /\ \E size \in Scales, a, b, c \in 0 .. MaxDataCoeff :
        \E fft_settings \in {FFTSettingsNew(size)} :
        \E data \in {make_data(fft_settings.max_width, a, b, c)} :
            /\ args' = [size |-> size, max_width |-> fft_settings.max_width, data |-> data]
            /\ ret' = "Ok"
            /\ obs' = [slow |-> fft_g1_slow(data, 1, fft_settings.expanded_roots_of_unity,
                                            1, fft_settings.max_width),
                       fast |-> fft_g1_fast(data, 1, fft_settings.expanded_roots_of_unity,
                                            1, fft_settings.max_width)]
    /\ pc' = "done"
    /\ op' = "compare_sft_fft"
    /\ IdleUnchanged

(* A call of compute_vanishing_polynomial_from_roots on a list of up to    *)
(* MaxRoots scalars, repeats allowed.                                      *)
MaxRoots == 3

RootLists == UNION {[1 .. m -> Fr] : m \in 0 .. MaxRoots}

VanishingFromRoots ==
    /\ pc = "start"
    /\ \E roots \in RootLists :
        \E r \in {compute_vanishing_polynomial_from_roots(roots)} :
            /\ args' = [roots |-> roots]
            /\ ret' = IF r.err = "" THEN "Ok" ELSE Failed(r.err)
            /\ obs' = r.val
    /\ pc' = "done"
    /\ op' = "compute_vanishing_polynomial_from_roots"
    /\ IdleUnchanged

SpecVanishing == InitIdle /\ [][VanishingFromRoots]_vars

(* A call of toeplitz_coeffs_stride as compute_fk20_proofs makes it: the   *)
(* polynomial has n coefficients, here 1, 2, ..., n, and out has 2k places *)
(* that are fresh or left by the call for another offset.                  *)
MaxPolyLen == 8

PolyOfLen(n) == AsVec([i \in 1 .. n |-> i])

FreshOut(n, stride) ==
    AsVec([i \in 1 .. (IF stride = 0 THEN 0 ELSE 2 * (n \div stride)) |-> 0])

ToeplitzArgs ==
    {a \in [n : 1 .. MaxPolyLen, stride : 0 .. MaxPolyLen, offset : 0 .. MaxPolyLen,
            previous : -1 .. MaxPolyLen] :
        /\ a.stride <= a.n
        /\ a.offset <= a.stride
        /\ a.previous < a.stride
        /\ a.previous # a.offset}

ToeplitzCoeffs ==
    /\ pc = "start"
    /\ \E a \in ToeplitzArgs :
        \E before \in {IF a.previous < 0 THEN FreshOut(a.n, a.stride)
                        ELSE ToeplitzCall(FreshOut(a.n, a.stride), PolyOfLen(a.n), a.n,
                                          a.previous, a.stride).val} :
        \E r \in {ToeplitzCall(before, PolyOfLen(a.n), a.n, a.offset, a.stride)} :
            /\ args' = [n |-> a.n, stride |-> a.stride, offset |-> a.offset,
                        previous |-> a.previous, out |-> before]
            /\ ret' = IF r.err = "" THEN "Ok" ELSE Failed(r.err)
            /\ obs' = r.val
    /\ pc' = "done"
    /\ op' = "toeplitz_coeffs_stride"
    /\ IdleUnchanged

SpecToeplitz == InitIdle /\ [][ToeplitzCoeffs]_vars

(* The coset factors of a cell of the mainnet preset, for every cell index *)
(* and the first index past them.                                          *)
CosetShiftsForCell ==
    /\ pc = "start"
    /\ \E cell_index \in 0 .. MainnetPreset.CELLS_PER_EXT_BLOB :
        \E pow \in {CosetShiftPowIndex(MainnetPreset, cell_index)} :
        \E inv \in {InvCosetShiftIndex(MainnetPreset, cell_index)} :
            /\ args' = [cell_index |-> cell_index]
            /\ ret' = IF pow.err # "" THEN Failed(pow.err)
                      ELSE IF inv.err # "" THEN Failed(inv.err) ELSE "Ok"
            /\ obs' = [h_k_pow_idx |-> pow.val, inv_coset_factor_idx |-> inv.val]
    /\ pc' = "done"
    /\ op' = "get_coset_shift_for_cell"
    /\ IdleUnchanged

SpecCosetShift == InitIdle /\ [][CosetShiftsForCell]_vars

(* compute_fk20_proofs for the presets whose blob has up to MaxWidth       *)
(* scalars, a power of two, in cells of a power of two of scalars; the     *)
(* polynomial is in monomial form, padded with zeros to twice the blob.    *)
Fk20Presets ==
    {P \in [FIELD_ELEMENTS_PER_CELL : 1 .. MaxWidth, FIELD_ELEMENTS_PER_BLOB : 1 .. MaxWidth] :
        /\ IsPow2(P.FIELD_ELEMENTS_PER_BLOB)
        /\ IsPow2(P.FIELD_ELEMENTS_PER_CELL)
        /\ P.FIELD_ELEMENTS_PER_BLOB % P.FIELD_ELEMENTS_PER_CELL = 0}

PaddedPoly(n, a, b, c) ==
    AsVec([i \in 1 .. (2 * n) |-> IF i <= n THEN (a + b * i + c * i * i) % Modulus ELSE 0])

Fk20Proofs ==
    /\ pc = "start"
    /\ \E P \in Fk20Presets, a, b, c \in 0 .. MaxDataCoeff :
        \E poly \in {PaddedPoly(P.FIELD_ELEMENTS_PER_BLOB, a, b, c)} :
        \E r \in {compute_fk20_proofs_for(P, poly, P.FIELD_ELEMENTS_PER_BLOB)} :
            /\ args' = [P |-> P, poly |-> poly, n |-> P.FIELD_ELEMENTS_PER_BLOB]
            /\ ret' = IF r.err = "" THEN "Ok" ELSE Failed(r.err)
            /\ obs' = [proofs |-> r.val, coeffs |-> r.rows]
    /\ pc' = "done"
    /\ op' = "compute_fk20_proofs"
    /\ IdleUnchanged

SpecFk20 == InitIdle /\ [][Fk20Proofs]_vars

SpecFft == InitIdle /\ [][roundtrip_fft \/ stride_fft \/ compare_sft_fft]_vars

SpecRecover == Init /\ [][Compute \/ Recover]_vars

SpecFacade == Init /\ [][Compute \/ Recover \/ ComputeInto]_vars

InitVerify ==
    /\ Init
    /\ recovered_cells = ZeroCells(CELLS_PER_EXT_BLOB)
    /\ recovered_proofs = None

SpecVerify == InitVerify /\ [][Compute \/ Verify]_vars

SpecWeights == InitWeights /\ [][Weigh]_vars

----------------------------------------------------------------------------
(* Recovery: what the calls return and leave behind.                       *)

RecoverReturned == pc = "done" /\ op = "recover"

OutputsSized == Len(args.recovered_cells) = CELLS_PER_EXT_BLOB

Threshold == CELLS_PER_EXT_BLOB \div 2

(* The call was given exactly the blob's cells at distinct valid indices,  *)
(* at least half of them, and outputs of the preset's size.                *)
ExactCellsGiven ==
    /\ RecoverReturned
    /\ OutputsSized
    /\ args.tamper = "none"
    /\ Len(args.cells) = Len(args.cell_indices)
    /\ Distinct(args.cell_indices)
    /\ InRange(args.cell_indices)
    /\ Len(args.cell_indices) >= Threshold

(* C1: recovery from the blob's own cells at any list of at least half of  *)
(* the indices, all distinct, in any order, returns Ok and leaves in       *)
(* recovered_cells the cells that compute_cells_and_kzg_proofs wrote for   *)
(* the blob; the proofs it recomputes are the blob's proofs.               *)
RecoveryCompleteness ==
    ExactCellsGiven =>
        /\ ret = "Ok"
        /\ recovered_cells = blob_cells
        /\ (IsSome(recovered_proofs) => recovered_proofs[1] = blob_proofs)

(* Half of the cells, listed out of order, gave back the whole blob. *)
RecoveryCompletenessWitness ==
    /\ ExactCellsGiven
    /\ Len(args.cell_indices) = Threshold
    /\ args.cell_indices[1] > args.cell_indices[2]
    /\ ret = "Ok"
    /\ recovered_cells = blob_cells
    /\ IsSome(recovered_proofs)
    /\ \E c \in 1 .. CELLS_PER_EXT_BLOB : blob_cells[c] # ZeroCell

(* C3: with fewer cells than half of the extended blob the call returns an *)
(* error, the one for too few cells once the outputs are sized and the two *)
(* input lengths agree; with exactly half of the cells at distinct valid   *)
(* indices and sized outputs it returns Ok, whatever the cells hold, so    *)
(* the pointwise division did not fail.                                    *)
RecoveryThreshold ==
    RecoverReturned =>
        /\ (Len(args.cells) < Threshold =>
                /\ IsErr(ret)
                /\ (OutputsSized /\ Len(args.cells) = Len(args.cell_indices)
                        => ret = "Err: Impossible to recover"))
        /\ ((/\ Len(args.cells) = Threshold
             /\ Len(args.cell_indices) = Threshold
             /\ Distinct(args.cell_indices)
             /\ InRange(args.cell_indices)
             /\ OutputsSized)
                => ret = "Ok")
        /\ (Distinct(args.cell_indices) /\ InRange(args.cell_indices)
                => ret # "Err: division by zero")

(* Exactly half of the cells: the missing half was recovered. *)
RecoveryThresholdWitness ==
    /\ ExactCellsGiven
    /\ Len(args.cells) = Threshold
    /\ ret = "Ok"
    /\ recovered_cells = blob_cells

(* One cell short of the threshold. *)
RecoveryBelowThresholdWitness ==
    /\ RecoverReturned
    /\ OutputsSized
    /\ Len(args.cells) = Threshold - 1
    /\ Len(args.cell_indices) = Threshold - 1
    /\ ret = "Err: Impossible to recover"

(* The call passed the length and range checks. *)
PassedLengthAndRangeChecks ==
    /\ RecoverReturned
    /\ OutputsSized
    /\ Len(args.cells) = Len(args.cell_indices)
    /\ Len(args.cells) <= CELLS_PER_EXT_BLOB
    /\ Len(args.cells) >= Threshold
    /\ InRange(args.cell_indices)

(* C4: a call that passes the length and range checks and lists an index   *)
(* twice returns the error for a slot written twice, whatever the cells    *)
(* hold.                                                                   *)
DuplicateIndexRejected ==
    PassedLengthAndRangeChecks /\ ~Distinct(args.cell_indices)
        => ret = "Err: Invalid output cell"

(* A duplicate is caught when the cell written first holds a scalar. *)
DuplicateIndexRejectedWhenMarked ==
    (PassedLengthAndRangeChecks /\ ~Distinct(args.cell_indices) /\ args.tamper # "null_cell")
        => ret = "Err: Invalid output cell"

(* The errors of the checks that precede the first write to the outputs. *)
ValidationErrors ==
    {"Err: Invalid output array length",
     "Err: Cell indicies mismatch",
     "Err: Cell length cannot be larger than CELLS_PER_EXT_BLOB",
     "Err: Impossible to recover",
     "Err: Cell index cannot be larger than CELLS_PER_EXT_BLOB"}

(* C7, as the code has it: an error of the input validation leaves both    *)
(* output buffers as they were at entry, and every error leaves            *)
(* recovered_proofs as it was; an error found later, a slot written twice  *)
(* or a failure inside recovery, leaves recovered_cells overwritten with   *)
(* null markers and the cells scattered so far.                            *)
NoWritesOnValidationFailure ==
    RecoverReturned /\ IsErr(ret) =>
        /\ recovered_proofs = args.recovered_proofs
        /\ (ret \in ValidationErrors => recovered_cells = args.recovered_cells)
        /\ (ret \notin ValidationErrors =>
                /\ recovered_cells # args.recovered_cells
                /\ \A c \in 1 .. CELLS_PER_EXT_BLOB :
                    \/ recovered_cells[c] = NullCell
                    \/ \E i \in 1 .. Len(args.cells) :
                        args.cell_indices[i] = c - 1 /\ recovered_cells[c] = args.cells[i])

(* A validation error with the outputs untouched. *)
NoWritesOnValidationFailureWitness ==
    /\ RecoverReturned
    /\ ret = "Err: Cell index cannot be larger than CELLS_PER_EXT_BLOB"
    /\ recovered_cells = args.recovered_cells
    /\ IsSome(recovered_proofs)

(* C7 as stated: every error leaves both output buffers as at entry. *)
NoPartialWritesOnFailure ==
    RecoverReturned /\ IsErr(ret) =>
        recovered_cells = args.recovered_cells /\ recovered_proofs = args.recovered_proofs

----------------------------------------------------------------------------
(* Verification: what the calls return and hand to their helpers.          *)

VerifyReturned == pc = "done" /\ op = "verify"

(* Every row is the blob's: its commitment, a cell of its extended blob    *)
(* and the proof of that cell.                                             *)
GenuineBatch ==
    /\ VerifyReturned
    /\ args.defect = "none"
    /\ \A i \in 1 .. Len(args.commitments) : args.commitments[i] = commitment

FullBatch ==
    /\ GenuineBatch
    /\ args.cell_indices = [i \in 1 .. CELLS_PER_EXT_BLOB |-> i - 1]
    /\ args.cells = blob_cells
    /\ args.proofs = blob_proofs

(* C2: the cells and proofs that compute_cells_and_kzg_proofs writes for a *)
(* blob verify against the blob's commitment: the batch of all cells, in   *)
(* order, returns Ok(true), and so does every batch of rows taken from it. *)
ProofCompleteness == GenuineBatch => ret = "Ok(true)"

(* The batch of all the cells of a blob was accepted. *)
ProofCompletenessWitness ==
    /\ FullBatch
    /\ ret = "Ok(true)"
    /\ obs.reached = "challenge"
    /\ \E c \in 1 .. CELLS_PER_EXT_BLOB : blob_cells[c] # ZeroCell

LengthsAgree ==
    /\ Len(args.commitments) = Len(args.cells)
    /\ Len(args.cell_indices) = Len(args.cells)
    /\ Len(args.proofs) = Len(args.cells)

(* Ill-formed: lengths that differ or, in a batch that is not empty, an    *)
(* index out of range or a point outside the subgroup.                     *)
IllFormed ==
    \/ ~LengthsAgree
    \/ /\ Len(args.cells) > 0
       /\ \/ \E i \in 1 .. Len(args.cell_indices) : args.cell_indices[i] >= CELLS_PER_EXT_BLOB
          \/ \E i \in 1 .. Len(args.proofs) : ~G1IsValid(args.proofs[i])
          \/ \E i \in 1 .. Len(args.commitments) : ~G1IsValid(args.commitments[i])

(* C5: verification returns an Err for every ill-formed batch and Ok(true) *)
(* or Ok(false), never an Err, for every other batch, a batch with a       *)
(* tampered cell scalar among them.                                        *)
ErrorSeparatedFromReject ==
    VerifyReturned =>
        IF IllFormed THEN IsErr(ret) ELSE ret \in {"Ok(true)", "Ok(false)"}

(* A well-formed batch with a tampered scalar was rejected, not failed. *)
ErrorSeparatedFromRejectWitness ==
    /\ VerifyReturned
    /\ args.defect = "flip_cell"
    /\ ~IllFormed
    /\ ret = "Ok(false)"

(* An invalid proof in the last row of a longer batch gave an error. *)
InvalidPointWitness ==
    /\ VerifyReturned
    /\ args.defect = "bad_proof"
    /\ Len(args.proofs) > 1
    /\ ret = "Err: Proof is not valid"

(* C6: the batch of four empty arrays returns Ok(true) and reaches no      *)
(* helper, so no use of the trusted setup; no cells with any other array   *)
(* not empty returns an Err.                                               *)
EmptyBatch ==
    VerifyReturned /\ Len(args.cells) = 0 =>
        IF Len(args.commitments) = 0 /\ Len(args.cell_indices) = 0 /\ Len(args.proofs) = 0
        THEN ret = "Ok(true)" /\ obs = NoObs
        ELSE IsErr(ret)

EmptyBatchWitness ==
    /\ VerifyReturned
    /\ Len(args.cells) = 0
    /\ Len(args.commitments) = 0
    /\ Len(args.cell_indices) = 0
    /\ Len(args.proofs) = 0
    /\ ret = "Ok(true)"

(* No cells, the other arrays of one row: an error. *)
EmptyCellsOnlyWitness ==
    /\ VerifyReturned
    /\ Len(args.cells) = 0
    /\ Len(args.commitments) = 1
    /\ IsErr(ret)

(* The distinct commitments of the batch in the order of their first       *)
(* occurrence.                                                             *)
FirstOccurrences(commitments) ==
    SelectSeq([i \in 1 .. Len(commitments) |->
                  IF \E j \in 1 .. (i - 1) : commitments[j] = commitments[i]
                  THEN <<>> ELSE <<commitments[i]>>],
              LAMBDA x : x # <<>>)

DistinctCommitments(commitments) ==
    LET first == FirstOccurrences(commitments)
    IN  [j \in 1 .. Len(first) |-> first[j][1]]

ReachedChallenge == VerifyReturned /\ obs.reached = "challenge"

(* C8: the list of commitments handed to the challenge and to the weighted *)
(* sum holds the batch's distinct commitments, each once, in the order of  *)
(* their first occurrence, and commitment_indices[i] is the place of row   *)
(* i's commitment in it.                                                   *)
CommitmentsDeduplicated ==
    ReachedChallenge =>
        /\ obs.unique_commitments = DistinctCommitments(args.commitments)
        /\ \A i \in 1 .. Len(args.commitments) :
            obs.unique_commitments[obs.commitment_indices[i] + 1] = args.commitments[i]

(* What does hold: the indices point at the rows' commitments, the         *)
(* distinct commitments open the list in the order of first occurrence,    *)
(* and the list has one entry per row.                                     *)
CommitmentIndicesPointAtCommitments ==
    ReachedChallenge =>
        LET distinct == DistinctCommitments(args.commitments)
        IN  /\ Len(obs.unique_commitments) = Len(args.commitments)
            /\ SubSeq(obs.unique_commitments, 1, Len(distinct)) = distinct
            /\ \A i \in 1 .. Len(args.commitments) :
                /\ obs.commitment_indices[i] < Len(distinct)
                /\ obs.unique_commitments[obs.commitment_indices[i] + 1] = args.commitments[i]

(* The layout of C9 for num_commitments commitments in the buffer. *)
LayoutWith(bytes, listed) ==
    LET n == Len(args.cells)
        row_size == 2 * BYTES_PER_U64 + FIELD_ELEMENTS_PER_CELL * BYTES_PER_FIELD_ELEMENT
                    + BYTES_PER_PROOF
        rows_at == 40 + BYTES_PER_COMMITMENT * Len(listed)
    IN  /\ Len(bytes) = 40 + 48 * Len(listed) + n * (16 + 32 * FIELD_ELEMENTS_PER_CELL + 48)
        /\ SubSeq(bytes, 1, 16) = RANDOM_CHALLENGE_KZG_CELL_BATCH_DOMAIN
        /\ FromBeBytes(SubSeq(bytes, 17, 24)) = FIELD_ELEMENTS_PER_CELL
        /\ FromBeBytes(SubSeq(bytes, 25, 32)) = Len(listed)
        /\ FromBeBytes(SubSeq(bytes, 33, 40)) = n
        /\ \A c \in 1 .. Len(listed) :
            FromBeBytes(SubSeq(bytes, 40 + 48 * (c - 1) + 1, 40 + 48 * c)) = listed[c]
        /\ \A i \in 1 .. n :
            LET at == rows_at + (i - 1) * row_size
            IN  /\ listed[FromBeBytes(SubSeq(bytes, at + 1, at + 8)) + 1] = args.commitments[i]
                /\ FromBeBytes(SubSeq(bytes, at + 9, at + 16)) = args.cell_indices[i]
                /\ \A f \in 1 .. FIELD_ELEMENTS_PER_CELL :
                    FromBeBytes(SubSeq(bytes, at + 16 + 32 * (f - 1) + 1, at + 16 + 32 * f))
                        = args.cells[i][f]
                /\ FromBeBytes(SubSeq(bytes, at + 16 + 32 * FIELD_ELEMENTS_PER_CELL + 1,
                                      at + row_size)) = args.proofs[i]

(* C9: the hashed buffer is the domain separator, FIELD_ELEMENTS_PER_CELL, *)
(* the number U of distinct commitments at 24..32, the number N of rows at *)
(* 32..40, the U distinct commitments, then per row the commitment index,  *)
(* the cell index, the scalars and the proof; 40 + 48 U + N (16 + 32 L +   *)
(* 48) bytes in all.                                                       *)
ChallengeLayout ==
    ReachedChallenge => LayoutWith(obs.bytes, DistinctCommitments(args.commitments))

(* What does hold: the same layout with one listed commitment per row. *)
ChallengeLayoutPerRow ==
    ReachedChallenge => LayoutWith(obs.bytes, obs.unique_commitments)

----------------------------------------------------------------------------
(* The weights of the commitments.                                         *)

WeightsReturned == pc = "done" /\ op = "weights"

(* The sum of r_powers over the rows listed in rows. *)
RECURSIVE SumOfRows(_, _)
SumOfRows(r_powers, rows) ==
    IF rows = {} THEN 0
    ELSE LET i == CHOOSE x \in rows : TRUE
         IN  FrAdd(r_powers[i], SumOfRows(r_powers, rows \ {i}))

(* C10: weights[j] is the sum of r_powers[i] over the rows i with          *)
(* commitment_indices[i] = j, and the parallel build gives the same        *)
(* weights as the sequential one for every number of threads.              *)
WeightsThreadIndependent ==
    WeightsReturned =>
        /\ obs.parallel = obs.sequential
        /\ Len(obs.sequential) = args.num_commitments
        /\ \A j \in 1 .. args.num_commitments :
            obs.sequential[j] =
                SumOfRows(args.r_powers,
                          {i \in 1 .. Len(args.r_powers) : args.commitment_indices[i] = j - 1})

(* Three rows on two threads, chunks of two rows and of one, a commitment  *)
(* with rows in both chunks.                                               *)
WeightsThreadIndependentWitness ==
    /\ WeightsReturned
    /\ args.num_threads = 2
    /\ Len(args.r_powers) = 3
    /\ args.commitment_indices[1] = args.commitment_indices[3]
    /\ args.r_powers[2] \notin {0, 1}
    /\ obs.parallel = obs.sequential
    /\ obs.parallel[args.commitment_indices[1] + 1] = FrAdd(args.r_powers[1], args.r_powers[3])

----------------------------------------------------------------------------
(* Output buffers of the wrong dimension.                                  *)

ComputeReturned == pc = "done" /\ op = "compute_into"

WrongLength(buf) == IsSome(buf) /\ Len(buf[1]) # CELLS_PER_EXT_BLOB

RecoverBuffersWrong ==
    /\ RecoverReturned
    /\ (Len(args.recovered_cells) # CELLS_PER_EXT_BLOB \/ WrongLength(args.recovered_proofs))

ComputeBuffersWrong ==
    /\ ComputeReturned
    /\ (WrongLength(args.cells) \/ WrongLength(args.proofs))

(* The half of C11 about recover_cells_and_kzg_proofs: an output buffer of *)
(* the wrong length gives an error and both buffers are as they were.      *)
RecoverInvalidLengthIsError ==
    RecoverBuffersWrong =>
        /\ IsErr(ret)
        /\ recovered_cells = args.recovered_cells
        /\ recovered_proofs = args.recovered_proofs

RecoverInvalidLengthWitness == RecoverBuffersWrong /\ IsErr(ret)

(* C11: every operation given an output buffer whose length is not         *)
(* CELLS_PER_EXT_BLOB returns an error, it does not panic, and it writes   *)
(* nothing to the buffers.                                                 *)
InvalidLengthIsError ==
    /\ RecoverInvalidLengthIsError
    /\ (ComputeBuffersWrong =>
            /\ IsErr(ret)
            /\ obs.cells = args.cells
            /\ obs.proofs = args.proofs)

(* The ways compute_cells_and_kzg_proofs departs from it. *)
ComputePanicsOnWrongLength == ComputeBuffersWrong /\ ret \in Panics

ComputeWritesTruncated ==
    /\ ComputeBuffersWrong
    /\ args.parallel
    /\ ret = "Ok"
    /\ obs.proofs # args.proofs

ComputeWritesThenFails ==
    /\ ComputeBuffersWrong
    /\ ~args.parallel
    /\ ret \in Panics
    /\ obs.cells # args.cells

----------------------------------------------------------------------------
(* The transform over G1.                                                  *)

(* C12: for settings of any scale and a vector of max_width points, the    *)
(* forward transform has max_width points and the inverse transform of it  *)
(* is the vector again, point by point.                                    *)
G1FftRoundTrip ==
    (pc = "done" /\ op = "roundtrip_fft") =>
        /\ ret = "Ok"
        /\ Len(obs.coeffs) = args.max_width
        /\ Len(obs.data) = args.max_width
        /\ \A i \in 1 .. args.max_width : obs.data[i] = args.expected[i]

(* The widest settings, on points that the transform does not leave as     *)
(* they are.                                                               *)
G1FftRoundTripWitness ==
    /\ pc = "done" /\ op = "roundtrip_fft"
    /\ args.size = TwoAdicity
    /\ obs.coeffs # args.expected
    /\ obs.data = args.expected
    /\ \E i, j \in 1 .. args.max_width : args.expected[i] # args.expected[j]

(* C13: the fast forward transform returns the sums of the direct one, and *)
(* settings of two scales give the same transform of a vector that fits    *)
(* the narrower of them.                                                   *)
G1FftEqualsReference ==
    /\ (pc = "done" /\ op = "compare_sft_fft") =>
            /\ Len(obs.fast) = args.max_width
            /\ obs.fast = obs.slow
    /\ (pc = "done" /\ op = "stride_fft") =>
            /\ ret = "Ok"
            /\ Len(obs.coeffs1) = args.width
            /\ obs.coeffs1 = obs.coeffs2

G1FftEqualsReferenceWitness ==
    /\ pc = "done" /\ op = "compare_sft_fft"
    /\ args.size = TwoAdicity
    /\ obs.fast = obs.slow
    /\ obs.fast # args.data
    /\ \E i \in 2 .. args.max_width : obs.fast[i] # 0

G1FftStrideWitness ==
    /\ pc = "done" /\ op = "stride_fft"
    /\ args.size1 < args.size2
    /\ args.width > 2
    /\ obs.coeffs1 = obs.coeffs2
    /\ obs.coeffs1 # args.data
    /\ \E i \in 2 .. args.width : obs.coeffs1[i] # 0

----------------------------------------------------------------------------
(* The vanishing polynomial.                                               *)

RECURSIVE ProductOver(_, _)
ProductOver(roots, S) ==
    IF S = {} THEN 1
    ELSE LET i == CHOOSE i \in S : TRUE
         IN  FrMul(roots[i], ProductOver(roots, S \ {i}))

RECURSIVE SumOfProducts(_, _)
SumOfProducts(roots, subsets) ==
    IF subsets = {} THEN 0
    ELSE LET S == CHOOSE S \in subsets : TRUE
         IN  FrAdd(ProductOver(roots, S), SumOfProducts(roots, subsets \ {S}))

(* The coefficient of x^d of the product of the (x - roots[i]): plus or    *)
(* minus the sum of the products of the roots taken Len(roots) - d at a    *)
(* time.                                                                   *)
ProductCoefficient(roots, d) ==
    LET k == Len(roots) - d
        e == SumOfProducts(roots, {S \in SUBSET (1 .. Len(roots)) : Cardinality(S) = k})
    IN  IF k % 2 = 0 THEN e ELSE FrNegate(e)

(* The value at x of the polynomial with coefficients poly[i], poly[i+1], *)
(* ... of x^0, x^1, ...                                                    *)
RECURSIVE EvalFrom(_, _, _)
EvalFrom(poly, x, i) ==
    IF i > Len(poly) THEN 0 ELSE FrAdd(poly[i], FrMul(x, EvalFrom(poly, x, i + 1)))

VanishingReturned == pc = "done" /\ op = "compute_vanishing_polynomial_from_roots"

(* C14: for a list of m >= 1 roots the result has m + 1 coefficients,      *)
(* lowest degree first, those of the product of the (x - r_i); the leading *)
(* one is 1 and the polynomial is 0 at every root.  The empty list gives   *)
(* an error.                                                               *)
VanishingPolynomialOfRoots ==
    VanishingReturned =>
        IF Len(args.roots) = 0 THEN IsErr(ret)
        ELSE /\ ret = "Ok"
             /\ Len(obs) = Len(args.roots) + 1
             /\ \A d \in 0 .. Len(args.roots) : obs[d + 1] = ProductCoefficient(args.roots, d)
             /\ obs[Len(obs)] = 1
             /\ \A i \in 1 .. Len(args.roots) : EvalFrom(obs, args.roots[i], 1) = 0

(* Three roots, one of them twice, none of them 0. *)
VanishingPolynomialOfRootsWitness ==
    /\ VanishingReturned
    /\ ret = "Ok"
    /\ Len(args.roots) = MaxRoots
    /\ args.roots[1] = args.roots[MaxRoots]
    /\ args.roots[1] # args.roots[2]
    /\ \A i \in 1 .. MaxRoots : args.roots[i] # 0
    /\ \E x \in Fr : EvalFrom(obs, x, 1) # 0

VanishingEmptyRootsWitness == VanishingReturned /\ args.roots = <<>> /\ IsErr(ret)

----------------------------------------------------------------------------
(* The Toeplitz coefficients.                                              *)

ToeplitzReturned == pc = "done" /\ op = "toeplitz_coeffs_stride"

ToeplitzInContract ==
    /\ ToeplitzReturned
    /\ args.stride >= 1
    /\ args.n % args.stride = 0
    /\ args.offset < args.stride

(* C15: for stride >= 1 dividing n, k = n / stride and an offset below the *)
(* stride, the call returns Ok and every place i of out[0 .. 2k) holds     *)
(* poly[n-1-offset] for i = 0, zero for 1 <= i <= k+1, and                 *)
(* poly[2*stride - offset - 1 + (i-(k+2))*stride] for k+2 <= i < 2k        *)
(* (poly[j] is j + 1 here); every place read lies in [0, n); nothing of    *)
(* what out held before is left.                                           *)
ToeplitzLayout ==
    ToeplitzInContract =>
        LET k == args.n \div args.stride
        IN  /\ ret = "Ok"
            /\ Len(obs) = 2 * k
            /\ \A i \in 0 .. (2 * k - 1) :
                    obs[i + 1] =
                        IF i = 0 THEN args.n - 1 - args.offset + 1
                        ELSE IF i <= k + 1 THEN 0
                        ELSE 2 * args.stride - args.offset - 1
                             + (i - (k + 2)) * args.stride + 1
            /\ ToeplitzReads(args.n, args.offset, args.stride) \subseteq 0 .. (args.n - 1)
            /\ ToeplitzWrites(args.n, args.stride) = 0 .. (2 * k - 1)

(* A call after the call for another offset, with places of all three      *)
(* kinds, that changes the first place and a place of the last kind.       *)
ToeplitzLayoutWitness ==
    /\ ToeplitzInContract
    /\ ret = "Ok"
    /\ args.previous >= 0
    /\ args.n \div args.stride >= 4
    /\ obs[1] # args.out[1]
    /\ obs[Len(obs)] # args.out[Len(obs)]
    /\ obs[Len(obs)] # 0

ToeplitzOutsideContractWitness ==
    /\ ToeplitzReturned
    /\ args.stride >= 1
    /\ args.offset = args.stride
    /\ ret \in Panics

----------------------------------------------------------------------------
(* The table of bit-reversed cell indices.                                 *)

CosetShiftReturned == pc = "done" /\ op = "get_coset_shift_for_cell"

TableLength == Len(CELL_INDICES_RBL_128)

(* C16: for every i below 128 the table holds the reversal of the 7 bits   *)
(* of i; it is a permutation of 0 .. 127 and its own inverse; the places   *)
(* CELL_INDICES_RBL[i] * FIELD_ELEMENTS_PER_CELL and                       *)
(* FIELD_ELEMENTS_PER_EXT_BLOB - CELL_INDICES_RBL[i] lie in                *)
(* 0 .. FIELD_ELEMENTS_PER_EXT_BLOB and the two functions return them      *)
(* without an error.                                                       *)
CellIndicesTable ==
    (CosetShiftReturned /\ args.cell_index < TableLength) =>
        LET rbl == CELL_INDICES_RBL_128[args.cell_index + 1]
        IN  /\ TableLength = MainnetPreset.CELLS_PER_EXT_BLOB
            /\ rbl = reverse_bits_limited(TableLength, args.cell_index)
            /\ rbl \in 0 .. (TableLength - 1)
            /\ CELL_INDICES_RBL_128[rbl + 1] = args.cell_index
            /\ \A j \in 0 .. (TableLength - 1) :
                    j # args.cell_index => CELL_INDICES_RBL_128[j + 1] # rbl
            /\ ret = "Ok"
            /\ obs.h_k_pow_idx = rbl * MainnetPreset.FIELD_ELEMENTS_PER_CELL
            /\ obs.h_k_pow_idx \in 0 .. MainnetPreset.FIELD_ELEMENTS_PER_EXT_BLOB
            /\ obs.inv_coset_factor_idx = MainnetPreset.FIELD_ELEMENTS_PER_EXT_BLOB - rbl
            /\ obs.inv_coset_factor_idx \in 0 .. MainnetPreset.FIELD_ELEMENTS_PER_EXT_BLOB

(* The last cell: its reversal is itself and is the largest there is. *)
CellIndicesTableWitness ==
    /\ CosetShiftReturned
    /\ args.cell_index = TableLength - 1
    /\ ret = "Ok"
    /\ obs.h_k_pow_idx = args.cell_index * MainnetPreset.FIELD_ELEMENTS_PER_CELL
    /\ obs.inv_coset_factor_idx > 0

CellIndicesTableReversedWitness ==
    /\ CosetShiftReturned
    /\ args.cell_index = 1
    /\ ret = "Ok"
    /\ obs.h_k_pow_idx = MainnetPreset.FIELD_ELEMENTS_PER_BLOB

CellIndexPastTableWitness ==
    /\ CosetShiftReturned
    /\ args.cell_index = TableLength
    /\ ret \in Panics

----------------------------------------------------------------------------
(* The coefficient matrix of FK20.                                         *)

Fk20Returned == pc = "done" /\ op = "compute_fk20_proofs"

(* C17: whatever the preset, k = n / FIELD_ELEMENTS_PER_CELL, the call     *)
(* meets no index out of range, every row of coeffs handed to g1_lincomb   *)
(* holds exactly FIELD_ELEMENTS_PER_CELL coefficients and the call returns *)
(* 2k group elements.                                                      *)
Fk20MatrixInBounds ==
    Fk20Returned =>
        LET k == args.n \div args.P.FIELD_ELEMENTS_PER_CELL
        IN  /\ ret = "Ok"
            /\ Len(obs.coeffs) = 2 * k
            /\ \A j \in 1 .. (2 * k) : Len(obs.coeffs[j]) = args.P.FIELD_ELEMENTS_PER_CELL
            /\ Len(obs.proofs) = 2 * k

(* What holds: with as many scalars in a cell as cells in a blob at most,  *)
(* the call returns 2k group elements.                                     *)
Fk20ReturnsWhenCellsFit ==
    (Fk20Returned /\ args.P.FIELD_ELEMENTS_PER_CELL
                        <= args.n \div args.P.FIELD_ELEMENTS_PER_CELL) =>
        /\ ret = "Ok"
        /\ Len(obs.proofs) = 2 * (args.n \div args.P.FIELD_ELEMENTS_PER_CELL)

Fk20PanicsWhenCellsExceed ==
    /\ Fk20Returned
    /\ args.P.FIELD_ELEMENTS_PER_CELL > args.n \div args.P.FIELD_ELEMENTS_PER_CELL
    /\ ret = "panic: index out of bounds"

Fk20RowsLongerThanCell ==
    /\ Fk20Returned
    /\ ret = "Ok"
    /\ \E j \in 1 .. Len(obs.coeffs) : Len(obs.coeffs[j]) > args.P.FIELD_ELEMENTS_PER_CELL

(* For the preset of the other specifications the call is the one they     *)
(* make.                                                                   *)
Fk20AgreesWithPreset ==
    (/\ Fk20Returned
     /\ args.P.FIELD_ELEMENTS_PER_CELL = FIELD_ELEMENTS_PER_CELL
     /\ args.n = FIELD_ELEMENTS_PER_BLOB) =>
        obs.proofs = compute_fk20_proofs(args.poly, args.n).val

====
